---- MODULE Spec2Model ----
(***************************************************************************)
(* The broker adapter layer of backend/app/brokers: the adapter factory    *)
(* get_broker_adapter and the three adapters DhanBroker, AngelOneBroker    *)
(* and FyersBroker, as a state machine.  An adapter instance is a record   *)
(* of its Python attributes; the vendor (HTTP endpoint or SDK) is the      *)
(* environment and answers nondeterministically.                           *)
(***************************************************************************)
EXTENDS Integers, Sequences, FiniteSets, TLC

VARIABLES
    adapters,   \* the adapter instances get_broker_adapter has returned, in order
    inflight,   \* per instance: the HTTP request a coroutine is awaiting, or Idle
    hist,       \* per instance: how its connect calls have ended so far (history)
    last,       \* the most recently completed invocation and what it returned
    strategies,          \* the rows of table "strategies", by primary key
    broker_connections,  \* api/broker.py's in-memory store, by user id
    ledger      \* what the answered requests say should be stored (history)

\* The state behind the HTTP endpoints; no adapter method touches it.
web == <<strategies, broker_connections, ledger>>

vars == <<adapters, inflight, hist, last, strategies, broker_connections, ledger>>

----------------------------------------------------------------------------
(* Bounds of the model. *)

\* The primary keys the database hands out for rows of "strategies".
MaxStrategyId == 2

MaxAdapters == 2

----------------------------------------------------------------------------
(* Python values.  Every value carries its type, so that None, False, "",  *)
(* {} and [] stay different values that are all falsy.                     *)

PyNone == [py |-> "None"]
PyBool(b) == [py |-> "bool", b |-> b]
PyTrue == PyBool(TRUE)
PyFalse == PyBool(FALSE)
PyStr(s) == [py |-> "str", s |-> s]
PyInt(n) == [py |-> "int", n |-> n]
PyDict(r) == [py |-> "dict", d |-> r]
PyList(q) == [py |-> "list", q |-> q]
PyObj(cls, attrs) == [py |-> "object", cls |-> cls, attrs |-> attrs]

EmptyDict == PyDict(<<>>)
EmptyList == PyList(<<>>)

\* bool(v): the truth value Python's `not v` / `if v` uses.
Truthy(v) ==
    CASE v.py = "None" -> FALSE
      [] v.py = "bool" -> v.b
      [] v.py = "str" -> v.s # ""
      [] v.py = "int" -> v.n # 0
      [] v.py = "dict" -> DOMAIN v.d # {}
      [] v.py = "list" -> Len(v.q) # 0
      [] OTHER -> TRUE

\* dict.get(key, default)
Get(v, key, default) == IF key \in DOMAIN v.d THEN v.d[key] ELSE default

\* The two ways an invocation ends.
Return(v) == [kind |-> "return", val |-> v]
Raise(exc, msg) == [kind |-> "raise", exc |-> exc, msg |-> msg]

----------------------------------------------------------------------------
(* Strings whose letters matter (broker names) are sequences of            *)
(* one-character strings, so that str.lower() is computed, not assumed.    *)

UpperToLower ==
    [A |-> "a", D |-> "d", E |-> "e", F |-> "f", G |-> "g", H |-> "h",
     L |-> "l", N |-> "n", O |-> "o", R |-> "r", S |-> "s", Y |-> "y",
     Z |-> "z"]

LowerChar(c) == IF c \in DOMAIN UpperToLower THEN UpperToLower[c] ELSE c

\* str.lower()
Lower(s) == [k \in 1..Len(s) |-> LowerChar(s[k])]

UpperChar(c) ==
    IF \E u \in DOMAIN UpperToLower : UpperToLower[u] = c
    THEN CHOOSE u \in DOMAIN UpperToLower : UpperToLower[u] = c
    ELSE c

----------------------------------------------------------------------------
(* Inputs: the values callers and vendors supply, drawn from small sets.   *)

Chars_dhan == <<"d", "h", "a", "n">>
Chars_angelone == <<"a", "n", "g", "e", "l", "o", "n", "e">>
Chars_fyers == <<"f", "y", "e", "r", "s">>

\* Names the callers of the main specification ask the factory for.
BrokerNames ==
    { Chars_dhan,
      <<"A", "n", "g", "e", "l", "O", "n", "e">>,
      <<"F", "Y", "E", "R", "S">>,
      <<"z", "e", "r", "o", "d", "h", "a">> }

OrderIds == {PyStr("O1"), PyStr("O2")}

OrderRequests ==
    { PyDict([symbol |-> PyStr("SBIN"), side |-> PyStr("BUY"), quantity |-> PyInt(10),
              order_type |-> PyStr("MARKET"), product_type |-> PyStr("INTRADAY")]),
      PyDict([symbol |-> PyStr("INFY"), token |-> PyStr("1594"), side |-> PyStr("SELL"),
              quantity |-> PyInt(5), order_type |-> PyStr("LIMIT"), price |-> PyInt(100)]) }

DhanCredentials ==
    { PyDict([client_id |-> PyStr("C1"), access_token |-> PyStr("T1")]),
      PyDict([client_id |-> PyStr("C2"), access_token |-> PyStr("T2")]),
      PyDict([client_id |-> PyStr("C2")]),
      PyDict([client_id |-> PyStr("C1"), access_token |-> PyStr("")]),
      PyDict([access_token |-> PyStr("T2")]),
      EmptyDict }

\* A record one vendor list (positions, holdings, order book) may carry.
PositionRecord == PyDict([symbol |-> PyStr("SBIN"), quantity |-> PyInt(10)])

----------------------------------------------------------------------------
(* The invocation record: what one call of an adapter method did.          *)

Idle == [op |-> "idle"]
NoRequest == [method |-> "none"]
NoResponse == [answer |-> "none"]
NoCall == [op |-> "none"]

\* A vendor answer that is an exception raised by the transport or the SDK.
VendorRaises(exc) == [answer |-> "raises", exc |-> exc]

Invocation(i, op, arg, pre, req, resp, calls, out) ==
    [inst |-> i, op |-> op, arg |-> arg, pre |-> pre,
     req |-> req, resp |-> resp, calls |-> calls, out |-> out]

\* The connect history of an instance after a connect call ended with `out`:
\* "fresh" (no connect yet), "failed" (no connect has succeeded), "connected"
\* (the latest connect returned true), and, once a connect had succeeded,
\* "refused" (the latest returned false) or "aborted" (the latest raised).
HistAfterConnect(h, out) ==
    IF out = Return(PyTrue) THEN "connected"
    ELSE IF h \in {"fresh", "failed"} THEN "failed"
    ELSE IF out = Return(PyFalse) THEN "refused"
    ELSE "aborted"

----------------------------------------------------------------------------
(* DhanBroker: plain HTTP calls, the only adapter whose methods suspend    *)
(* (await client.post/get/delete), so an invocation is in flight between   *)
(* sending the request and the response, failure or cancellation.         *)

BASE_URL == "https://api.dhan.co"

DhanBroker ==
    PyObj("DhanBroker",
          [client_id |-> PyNone, access_token |-> PyNone, headers |-> EmptyDict])

\* connect as it would be if it only tested the credentials for None.
DhanConnectNoneOnly(self, credentials) ==
    LET s1 == [self EXCEPT !.attrs.client_id = Get(credentials, "client_id", PyNone),
                           !.attrs.access_token = Get(credentials, "access_token", PyNone)]
    IN  IF s1.attrs.client_id = PyNone \/ s1.attrs.access_token = PyNone
        THEN [self |-> s1, out |-> Return(PyFalse)]
        ELSE [self |-> [s1 EXCEPT !.attrs.headers =
                           PyDict(("X-Client-Id" :> s1.attrs.client_id)
                                  @@ ("X-Dhan-Client-Token" :> s1.attrs.access_token)
                                  @@ ("Content-Type" :> PyStr("application/json")))],
              out |-> Return(PyTrue)]

\* connect: [self |-> the instance afterwards, out |-> what is returned]
DhanConnect(self, credentials) ==
    LET s1 == [self EXCEPT !.attrs.client_id = Get(credentials, "client_id", PyNone),
                           !.attrs.access_token = Get(credentials, "access_token", PyNone)]
    IN  IF ~Truthy(s1.attrs.client_id) \/ ~Truthy(s1.attrs.access_token)
        THEN [self |-> s1, out |-> Return(PyFalse)]
        ELSE [self |-> [s1 EXCEPT !.attrs.headers =
                           PyDict(("X-Client-Id" :> s1.attrs.client_id)
                                  @@ ("X-Dhan-Client-Token" :> s1.attrs.access_token)
                                  @@ ("Content-Type" :> PyStr("application/json")))],
              out |-> Return(PyTrue)]

DhanGetProfile(self) == Return(PyDict([client_id |-> self.attrs.client_id]))

DhanOrderPayload(self, order_details) ==
    PyDict([dhanClientId |-> self.attrs.client_id,
            transactionType |-> Get(order_details, "side", PyNone),
            exchangeSegment |-> PyStr("NSE_EQ"),
            productType |-> Get(order_details, "product_type", PyStr("INTRADAY")),
            securityId |-> Get(order_details, "symbol", PyNone),
            quantity |-> Get(order_details, "quantity", PyNone),
            orderType |-> Get(order_details, "order_type", PyStr("MARKET")),
            price |-> Get(order_details, "price", PyInt(0)),
            validity |-> PyStr("DAY")])

HttpRequest(method, url, headers, json) ==
    [method |-> method, url |-> url, headers |-> headers, json |-> json]

\* The request each method sends; it sends it whatever the instance holds.
DhanRequest(self, op, arg) ==
    CASE op = "place_order" ->
            HttpRequest("POST", <<BASE_URL, "/orders">>, self.attrs.headers,
                        DhanOrderPayload(self, arg))
      [] op = "cancel_order" ->
            HttpRequest("DELETE", <<BASE_URL, "/orders/", arg.s>>, self.attrs.headers, PyNone)
      [] op = "get_order_status" ->
            HttpRequest("GET", <<BASE_URL, "/orders/", arg.s>>, self.attrs.headers, PyNone)
      [] op = "get_positions" ->
            HttpRequest("GET", <<BASE_URL, "/positions">>, self.attrs.headers, PyNone)
      [] op = "get_holdings" ->
            HttpRequest("GET", <<BASE_URL, "/holdings">>, self.attrs.headers, PyNone)

\* An HTTP response: response.json() is `json`, or raises when the body is no JSON.
HttpResponse(status_code, text, json) ==
    [answer |-> "http", status_code |-> status_code, text |-> text, json |-> json]

NotJson == [py |-> "not json"]

ResponseJson(response) ==
    IF response.json = NotJson THEN Raise("JSONDecodeError", response.text)
    ELSE Return(response.json)

\* What the vendor's endpoint may answer to a request of `op`.
DhanResponses(op, arg) ==
    {HttpResponse(500, "Internal Server Error", NotJson),
     HttpResponse(200, "<html>", NotJson),
     VendorRaises("httpx.ConnectError")}
    \cup
    CASE op = "place_order" ->
            {HttpResponse(200, "json", PyDict([orderId |-> PyStr("O1"),
                                              orderStatus |-> PyStr("PENDING")])),
             HttpResponse(400, "{errorCode: DH-906, errorMessage: order rejected}", NotJson)}
      [] op = "cancel_order" ->
            {HttpResponse(200, "json", PyDict([orderId |-> arg, orderStatus |-> PyStr("CANCELLED")])),
             HttpResponse(400, "{errorCode: DH-906, errorMessage: cannot cancel}", NotJson)}
      [] op = "get_order_status" ->
            {HttpResponse(200, "json", PyDict([orderId |-> arg, orderStatus |-> PyStr("TRADED")])),
             HttpResponse(404, "{errorCode: DH-907, errorMessage: no such order}", NotJson)}
      [] OTHER ->
            {HttpResponse(200, "json", EmptyList),
             HttpResponse(200, "json", PyList(<<PositionRecord>>))}

\* The endpoint never accepts a request that carries no credential headers.
Unauthenticated(request) == request.headers = EmptyDict
Accepted(response) == response.answer = "http" /\ response.status_code = 200

\* The methods as they would be if place_order read the body of every answer
\* that is no server error.
DhanOnResponseLenient(op, response) ==
    IF response.answer = "raises" THEN Raise(response.exc, "")
    ELSE CASE op = "place_order" ->
                 IF response.status_code >= 500
                 THEN Return(PyDict([status |-> PyStr("error"),
                                     message |-> PyStr(response.text)]))
                 ELSE ResponseJson(response)
           [] op = "cancel_order" -> Return(PyBool(response.status_code = 200))
           [] op = "get_order_status" ->
                 IF response.status_code = 200 THEN ResponseJson(response)
                 ELSE Return(EmptyDict)
           [] OTHER ->
                 IF response.status_code = 200 THEN ResponseJson(response)
                 ELSE Return(EmptyList)

\* What each method makes of the answer to its request.
DhanOnResponse(op, response) ==
    IF response.answer = "raises" THEN Raise(response.exc, "")
    ELSE CASE op = "place_order" ->
                 IF response.status_code # 200
                 THEN Return(PyDict([status |-> PyStr("error"),
                                     message |-> PyStr(response.text)]))
                 ELSE ResponseJson(response)
           [] op = "cancel_order" -> Return(PyBool(response.status_code = 200))
           [] op = "get_order_status" ->
                 IF response.status_code = 200 THEN ResponseJson(response)
                 ELSE Return(EmptyDict)
           [] OTHER ->
                 IF response.status_code = 200 THEN ResponseJson(response)
                 ELSE Return(EmptyList)

----------------------------------------------------------------------------
(* Vendor SDK calls (SmartApi, fyers_apiv3): synchronous, so the method    *)
(* that makes one runs to its end in a single step.                        *)

\* The call a method makes on its client handle.
SdkRequest(client, call, args) ==
    [method |-> "sdk", client |-> client, call |-> call, args |-> args]

\* A vendor answer that is a value the SDK call returns.
VendorReturns(v) == [answer |-> "returns", value |-> v]

\* What a method did: the instance afterwards, the result, the vendor call made.
Did(self, out, req, resp, calls) ==
    [self |-> self, out |-> out, req |-> req, resp |-> resp, calls |-> calls]

\* v.get(key, default) on a value that may not be a dict (None has no .get).
GetOrRaise(v, key, default) ==
    IF v.py = "dict" THEN Return(Get(v, key, default))
    ELSE Raise("AttributeError", "object has no attribute 'get'")

\* The first element of list q whose field `key` equals `id`, else `default`.
FirstWith(q, key, id, default) ==
    IF \E k \in 1..Len(q) : q[k].d[key] = id
    THEN q[CHOOSE k \in 1..Len(q) :
               /\ q[k].d[key] = id
               /\ \A j \in 1..(k - 1) : q[j].d[key] # id]
    ELSE default

----------------------------------------------------------------------------
(* AngelOneBroker *)

AngelOneBroker ==
    PyObj("AngelOneBroker",
          [smart_api |-> PyNone, client_code |-> PyNone, refresh_token |-> PyNone])

AngelOneCredentials ==
    { PyDict([api_key |-> PyStr("k"), client_id |-> PyStr("C1"), password |-> PyStr("p"),
              totp_key |-> PyStr("base32seed")]),
      PyDict([api_key |-> PyStr("k"), client_id |-> PyStr("C2"), password |-> PyStr("p")]),
      PyDict([api_key |-> PyStr("k"), client_id |-> PyStr("C2"), password |-> PyStr("bad"),
              totp_key |-> PyStr("not base32!"), totp |-> PyStr("654321")]) }

\* pyotp.TOTP(seed).now(): a six-digit code, or an exception for a seed that is
\* no base32 string.
TotpNow(seed) ==
    IF seed = PyStr("base32seed") THEN Return(PyStr("492039"))
    ELSE Raise("binascii.Error", "Non-base32 digit found")

\* SmartConnect(api_key=...): the constructor returns the handle or raises.
SmartConnectOutcomes == {"constructed", "raises"}

SessionAnswers ==
    { VendorReturns(PyDict([status |-> PyTrue,
                            data |-> PyDict([refreshToken |-> PyStr("R1")])])),
      VendorReturns(PyDict([status |-> PyTrue,
                            data |-> PyDict([refreshToken |-> PyStr("R2")])])),
      VendorReturns(PyDict([status |-> PyTrue, data |-> EmptyDict])),
      VendorReturns(PyDict([status |-> PyTrue, message |-> PyStr("SUCCESS")])),
      VendorReturns(PyDict([status |-> PyFalse, message |-> PyStr("Invalid totp")])),
      VendorReturns(PyNone),
      VendorRaises("DataException") }

\* connect as it would be if it read the token under the key "refresh_token".
AngelOneConnectSnakeCase(self, credentials, ctor, answer) ==
    LET api_key == Get(credentials, "api_key", PyNone)
        s1 == [self EXCEPT !.attrs.client_code = Get(credentials, "client_id", PyNone)]
        password == Get(credentials, "password", PyNone)
        totp_key == Get(credentials, "totp_key", PyNone)
    IN  IF ctor = "raises"
        THEN Did(s1, Raise("Exception", "SmartConnect"), NoRequest, NoResponse, 0)
        ELSE
        LET s2 == [s1 EXCEPT !.attrs.smart_api = PyObj("SmartConnect", [api_key |-> api_key])]
            totp == IF Truthy(totp_key) /\ TotpNow(totp_key).kind = "return"
                    THEN TotpNow(totp_key).val
                    ELSE Get(credentials, "totp", PyStr("000000"))
            req == SdkRequest(s2.attrs.smart_api, "generateSession",
                              <<s2.attrs.client_code, password, totp>>)
        IN  IF answer.answer = "raises"
            THEN Did(s2, Raise(answer.exc, ""), req, answer, 1)
            ELSE
            LET data == answer.value
            IN  IF data.py = "dict" /\ Get(data, "status", PyNone) = PyFalse
                THEN Did(s2, Return(PyFalse), req, answer, 1)
                ELSE IF data.py = "dict" /\ "data" \in DOMAIN data.d
                THEN Did([s2 EXCEPT !.attrs.refresh_token =
                                        Get(data.d["data"], "refresh_token", PyNone)],
                         Return(PyTrue), req, answer, 1)
                ELSE Did(s2, Return(PyTrue), req, answer, 1)

AngelOneConnect(self, credentials, ctor, answer) ==
    LET api_key == Get(credentials, "api_key", PyNone)
        s1 == [self EXCEPT !.attrs.client_code = Get(credentials, "client_id", PyNone)]
        password == Get(credentials, "password", PyNone)
        totp_key == Get(credentials, "totp_key", PyNone)
    IN  IF ctor = "raises"
        THEN Did(s1, Raise("Exception", "SmartConnect"), NoRequest, NoResponse, 0)
        ELSE
        LET s2 == [s1 EXCEPT !.attrs.smart_api = PyObj("SmartConnect", [api_key |-> api_key])]
            totp == IF Truthy(totp_key) /\ TotpNow(totp_key).kind = "return"
                    THEN TotpNow(totp_key).val
                    ELSE Get(credentials, "totp", PyStr("000000"))
            req == SdkRequest(s2.attrs.smart_api, "generateSession",
                              <<s2.attrs.client_code, password, totp>>)
        IN  IF answer.answer = "raises"
            THEN Did(s2, Raise(answer.exc, ""), req, answer, 1)
            ELSE
            LET data == answer.value
            IN  IF data.py = "dict" /\ Get(data, "status", PyNone) = PyFalse
                THEN Did(s2, Return(PyFalse), req, answer, 1)
                ELSE IF data.py = "dict" /\ "data" \in DOMAIN data.d
                THEN Did([s2 EXCEPT !.attrs.refresh_token =
                                        Get(data.d["data"], "refreshToken", PyNone)],
                         Return(PyTrue), req, answer, 1)
                ELSE Did(s2, Return(PyTrue), req, answer, 1)

AngelOneOrderParams(order_details) ==
    PyDict([variety |-> PyStr("NORMAL"),
            tradingsymbol |-> Get(order_details, "symbol", PyNone),
            symboltoken |-> Get(order_details, "token", PyNone),
            transactiontype |-> Get(order_details, "side", PyNone),
            exchange |-> PyStr("NSE"),
            ordertype |-> Get(order_details, "order_type", PyStr("MARKET")),
            producttype |-> Get(order_details, "product_type", PyStr("INTRADAY")),
            duration |-> PyStr("DAY"),
            price |-> Get(order_details, "price", PyInt(0)),
            squareoff |-> PyStr("0"),
            stoploss |-> PyStr("0"),
            quantity |-> Get(order_details, "quantity", PyNone)])

\* What the SmartApi call of `op` may answer.
AngelOneAnswers(op, arg) ==
    {VendorRaises("DataException")}
    \cup
    CASE op = "get_profile" ->
            {VendorReturns(PyDict([status |-> PyTrue,
                                   data |-> PyDict([clientcode |-> PyStr("C1")])])),
             VendorReturns(PyDict([status |-> PyFalse, message |-> PyStr("Invalid Token")]))}
      [] op = "place_order" ->
            {VendorReturns(PyStr("O1")), VendorReturns(PyNone)}
      [] op = "cancel_order" ->
            {VendorReturns(PyDict([status |-> PyTrue, data |-> PyDict([orderid |-> arg])])),
             VendorReturns(PyDict([status |-> PyFalse, message |-> PyStr("Order not found")]))}
      [] op = "get_order_status" ->
            {VendorReturns(PyDict([status |-> PyTrue,
                 data |-> PyList(<<PyDict([orderid |-> PyStr("O1"),
                                           status |-> PyStr("complete")])>>)])),
             VendorReturns(PyDict([status |-> PyTrue, data |-> EmptyList])),
             VendorReturns(PyDict([status |-> PyFalse, message |-> PyStr("Invalid Token")])),
             VendorReturns(PyNone)}
      [] OTHER ->
            {VendorReturns(PyDict([status |-> PyTrue, data |-> PyList(<<PositionRecord>>)])),
             VendorReturns(PyDict([status |-> PyTrue, data |-> EmptyList])),
             VendorReturns(PyDict([status |-> PyFalse, message |-> PyStr("Invalid Token")])),
             VendorReturns(PyNone)}

AngelOneGetProfile(self, answer) ==
    IF Truthy(self.attrs.smart_api) /\ Truthy(self.attrs.refresh_token)
    THEN LET req == SdkRequest(self.attrs.smart_api, "getProfile", <<self.attrs.refresh_token>>)
         IN  IF answer.answer = "raises" THEN Did(self, Raise(answer.exc, ""), req, answer, 1)
             ELSE Did(self, Return(answer.value), req, answer, 1)
    ELSE Did(self, Return(EmptyDict), NoRequest, NoResponse, 0)

AngelOnePlaceOrder(self, order_details, answer) ==
    IF ~Truthy(self.attrs.smart_api)
    THEN Did(self, Raise("RuntimeError", "Broker not connected"), NoRequest, NoResponse, 0)
    ELSE LET req == SdkRequest(self.attrs.smart_api, "placeOrder",
                               <<AngelOneOrderParams(order_details)>>)
         IN  IF answer.answer = "raises" THEN Did(self, Raise(answer.exc, ""), req, answer, 1)
             ELSE Did(self, Return(PyDict([order_id |-> answer.value])), req, answer, 1)

AngelOneCancelOrder(self, order_id, answer) ==
    IF ~Truthy(self.attrs.smart_api)
    THEN Did(self, Return(PyFalse), NoRequest, NoResponse, 0)
    ELSE LET req == SdkRequest(self.attrs.smart_api, "cancelOrder", <<order_id, PyStr("NORMAL")>>)
         IN  IF answer.answer = "raises" THEN Did(self, Return(PyFalse), req, answer, 1)
             ELSE Did(self, Return(PyTrue), req, answer, 1)

AngelOneGetOrderStatus(self, order_id, answer) ==
    IF ~Truthy(self.attrs.smart_api)
    THEN Did(self, Return(EmptyDict), NoRequest, NoResponse, 0)
    ELSE LET req == SdkRequest(self.attrs.smart_api, "orderBook", <<>>)
         IN  IF answer.answer = "raises" THEN Did(self, Raise(answer.exc, ""), req, answer, 1)
             ELSE LET order_book == answer.value
                  IN  IF Truthy(order_book) /\ "data" \in DOMAIN order_book.d
                      THEN Did(self,
                               Return(FirstWith(order_book.d["data"].q, "orderid", order_id,
                                                EmptyDict)),
                               req, answer, 1)
                      ELSE Did(self, Return(EmptyDict), req, answer, 1)

\* get_positions (call "position") and get_holdings (call "holding")
AngelOneGetList(self, call, answer) ==
    IF ~Truthy(self.attrs.smart_api)
    THEN Did(self, Return(EmptyList), NoRequest, NoResponse, 0)
    ELSE LET req == SdkRequest(self.attrs.smart_api, call, <<>>)
         IN  IF answer.answer = "raises" THEN Did(self, Raise(answer.exc, ""), req, answer, 1)
             ELSE Did(self, GetOrRaise(answer.value, "data", EmptyList), req, answer, 1)

----------------------------------------------------------------------------
(* FyersBroker *)

FyersBroker == PyObj("FyersBroker", [fyers |-> PyNone, client_id |-> PyNone])

FyersCredentials ==
    { PyDict([client_id |-> PyStr("C1"), access_token |-> PyStr("T1")]),
      PyDict([client_id |-> PyStr("C2"), access_token |-> PyStr("T2")]),
      PyDict([client_id |-> PyStr("C2")]) }

\* fyersModel.FyersModel(client_id=..., token=..., log_path=""): the handle, or raises.
FyersModelOutcomes == {"constructed", "raises"}

FyersProfileAnswers ==
    { VendorReturns(PyDict([s |-> PyStr("ok"), data |-> PyDict([fy_id |-> PyStr("C1")])])),
      VendorReturns(PyDict([s |-> PyStr("error"), message |-> PyStr("invalid token")])),
      VendorReturns(PyDict([message |-> PyStr("bad gateway")])),
      VendorRaises("ConnectionError") }

\* connect as it would be if every envelope the profile fetch returns counted.
FyersConnectAnyEnvelope(self, credentials, ctor, answer) ==
    LET s1 == [self EXCEPT !.attrs.client_id = Get(credentials, "client_id", PyNone)]
        access_token == Get(credentials, "access_token", PyNone)
    IN  IF ctor = "raises"
        THEN Did(s1, Raise("Exception", "FyersModel"), NoRequest, NoResponse, 0)
        ELSE
        LET s2 == [s1 EXCEPT !.attrs.fyers =
                      PyObj("FyersModel", [client_id |-> s1.attrs.client_id,
                                           token |-> access_token])]
            req == SdkRequest(s2.attrs.fyers, "get_profile", <<>>)
        IN  IF answer.answer = "returns"
            THEN Did(s2, Return(PyTrue), req, answer, 1)
            ELSE Did(s2, Return(PyFalse), req, answer, 1)

FyersConnect(self, credentials, ctor, answer) ==
    LET s1 == [self EXCEPT !.attrs.client_id = Get(credentials, "client_id", PyNone)]
        access_token == Get(credentials, "access_token", PyNone)
    IN  IF ctor = "raises"
        THEN Did(s1, Raise("Exception", "FyersModel"), NoRequest, NoResponse, 0)
        ELSE
        LET s2 == [s1 EXCEPT !.attrs.fyers =
                      PyObj("FyersModel", [client_id |-> s1.attrs.client_id,
                                           token |-> access_token])]
            req == SdkRequest(s2.attrs.fyers, "get_profile", <<>>)
        IN  IF answer.answer = "returns"
               /\ GetOrRaise(answer.value, "s", PyNone) = Return(PyStr("ok"))
            THEN Did(s2, Return(PyTrue), req, answer, 1)
            ELSE Did(s2, Return(PyFalse), req, answer, 1)

\* The order types as they would be with the codes of LIMIT and MARKET exchanged.
order_type_map_exchanged ==
    [LIMIT |-> PyInt(2), MARKET |-> PyInt(1), STOP_LIMIT |-> PyInt(3), STOP_MARKET |-> PyInt(4)]

order_type_map ==
    [LIMIT |-> PyInt(1), MARKET |-> PyInt(2), STOP_LIMIT |-> PyInt(3), STOP_MARKET |-> PyInt(4)]

side_map == [BUY |-> PyInt(1), SELL |-> PyInt(-1)]

\* map.get(key, default) for a key that is a Python value
MapGet(map, key, default) ==
    IF key.py = "str" /\ key.s \in DOMAIN map THEN map[key.s] ELSE default

FyersOrderData(order_details) ==
    PyDict([symbol |-> Get(order_details, "symbol", PyNone),
            qty |-> Get(order_details, "quantity", PyNone),
            type |-> MapGet(order_type_map,
                            Get(order_details, "order_type", PyStr("MARKET")), PyInt(2)),
            side |-> MapGet(side_map, Get(order_details, "side", PyStr("BUY")), PyInt(1)),
            productType |-> Get(order_details, "product_type", PyStr("INTRADAY")),
            limitPrice |-> Get(order_details, "price", PyInt(0)),
            stopPrice |-> PyInt(0),
            validity |-> PyStr("DAY"),
            disclosedQty |-> PyInt(0),
            offlineOrder |-> PyFalse])

\* What the fyers_apiv3 call of `op` may answer.
FyersAnswers(op, arg) ==
    {VendorRaises("ConnectionError"),
     VendorReturns(PyDict([s |-> PyStr("error"), code |-> PyInt(-16),
                           message |-> PyStr("Could not authenticate the user")]))}
    \cup
    CASE op = "get_profile" ->
            {VendorReturns(PyDict([s |-> PyStr("ok"),
                                   data |-> PyDict([fy_id |-> PyStr("C1")])]))}
      [] op = "place_order" ->
            {VendorReturns(PyDict([s |-> PyStr("ok"), id |-> PyStr("O1"),
                                   message |-> PyStr("Order submitted")])),
             VendorReturns(PyDict([s |-> PyStr("error"), code |-> PyInt(-99),
                                   message |-> PyStr("RED:Margin Shortfall")]))}
      [] op = "cancel_order" ->
            {VendorReturns(PyDict([s |-> PyStr("ok"), id |-> arg]))}
      [] op = "get_order_status" ->
            {VendorReturns(PyDict([s |-> PyStr("ok"),
                 orderBook |-> PyList(<<PyDict([id |-> PyStr("O1"), status |-> PyInt(2)])>>)])),
             VendorReturns(PyDict([s |-> PyStr("ok"), orderBook |-> EmptyList])),
             VendorReturns(PyDict([s |-> PyStr("ok")]))}
      [] op = "get_positions" ->
            {VendorReturns(PyDict([s |-> PyStr("ok"),
                                   netPositions |-> PyList(<<PositionRecord>>)])),
             VendorReturns(PyDict([s |-> PyStr("ok"), netPositions |-> EmptyList]))}
      [] OTHER ->
            {VendorReturns(PyDict([s |-> PyStr("ok"),
                                   holdings |-> PyList(<<PositionRecord>>)])),
             VendorReturns(PyDict([s |-> PyStr("ok"), holdings |-> EmptyList]))}

FyersGetProfile(self, answer) ==
    IF Truthy(self.attrs.fyers)
    THEN LET req == SdkRequest(self.attrs.fyers, "get_profile", <<>>)
         IN  IF answer.answer = "raises" THEN Did(self, Raise(answer.exc, ""), req, answer, 1)
             ELSE Did(self, Return(answer.value), req, answer, 1)
    ELSE Did(self, Return(EmptyDict), NoRequest, NoResponse, 0)

\* place_order as it would be with a retry: a vendor call that raised is made again.
FyersPlaceOrderRetrying(self, order_details, answer) ==
    IF ~Truthy(self.attrs.fyers)
    THEN Did(self, Raise("RuntimeError", "Broker not connected"), NoRequest, NoResponse, 0)
    ELSE LET req == SdkRequest(self.attrs.fyers, "place_order", <<FyersOrderData(order_details)>>)
         IN  IF answer.answer = "raises" THEN Did(self, Raise(answer.exc, ""), req, answer, 2)
             ELSE Did(self, Return(answer.value), req, answer, 1)

FyersPlaceOrder(self, order_details, answer) ==
    IF ~Truthy(self.attrs.fyers)
    THEN Did(self, Raise("RuntimeError", "Broker not connected"), NoRequest, NoResponse, 0)
    ELSE LET req == SdkRequest(self.attrs.fyers, "place_order", <<FyersOrderData(order_details)>>)
         IN  IF answer.answer = "raises" THEN Did(self, Raise(answer.exc, ""), req, answer, 1)
             ELSE Did(self, Return(answer.value), req, answer, 1)

FyersCancelOrder(self, order_id, answer) ==
    IF ~Truthy(self.attrs.fyers)
    THEN Did(self, Return(PyFalse), NoRequest, NoResponse, 0)
    ELSE LET req == SdkRequest(self.attrs.fyers, "cancel_order", <<PyDict([id |-> order_id])>>)
         IN  IF answer.answer = "raises" THEN Did(self, Raise(answer.exc, ""), req, answer, 1)
             ELSE Did(self, Return(PyBool(Get(answer.value, "s", PyNone) = PyStr("ok"))),
                      req, answer, 1)

FyersGetOrderStatus(self, order_id, answer) ==
    IF ~Truthy(self.attrs.fyers)
    THEN Did(self, Return(EmptyDict), NoRequest, NoResponse, 0)
    ELSE LET req == SdkRequest(self.attrs.fyers, "orderbook", <<>>)
         IN  IF answer.answer = "raises" THEN Did(self, Raise(answer.exc, ""), req, answer, 1)
             ELSE IF Get(answer.value, "s", PyNone) = PyStr("ok")
             THEN Did(self,
                      Return(FirstWith(Get(answer.value, "orderBook", EmptyList).q,
                                       "id", order_id, EmptyDict)),
                      req, answer, 1)
             ELSE Did(self, Return(EmptyDict), req, answer, 1)

\* get_positions (call "positions", key "netPositions") and
\* get_holdings (call "holdings", key "holdings")
FyersGetList(self, call, key, answer) ==
    IF ~Truthy(self.attrs.fyers)
    THEN Did(self, Return(EmptyList), NoRequest, NoResponse, 0)
    ELSE LET req == SdkRequest(self.attrs.fyers, call, <<>>)
         IN  IF answer.answer = "raises" THEN Did(self, Raise(answer.exc, ""), req, answer, 1)
             ELSE IF Get(answer.value, "s", PyNone) = PyStr("ok")
             THEN Did(self, Return(Get(answer.value, key, EmptyList)), req, answer, 1)
             ELSE Did(self, Return(EmptyList), req, answer, 1)

----------------------------------------------------------------------------
(* The adapter factory *)

\* The factory as it would be if it compared the name as written.
get_broker_adapter_exact(broker_name) ==
    IF broker_name = Chars_dhan THEN Return(DhanBroker)
    ELSE IF broker_name = Chars_angelone THEN Return(AngelOneBroker)
    ELSE IF broker_name = Chars_fyers THEN Return(FyersBroker)
    ELSE Raise("ValueError", <<"Unsupported broker: ">> \o broker_name)

get_broker_adapter(broker_name) ==
    IF Lower(broker_name) = Chars_dhan THEN Return(DhanBroker)
    ELSE IF Lower(broker_name) = Chars_angelone THEN Return(AngelOneBroker)
    ELSE IF Lower(broker_name) = Chars_fyers THEN Return(FyersBroker)
    ELSE Raise("ValueError", <<"Unsupported broker: ">> \o broker_name)

----------------------------------------------------------------------------
(* The state machine *)

Instances == 1..Len(adapters)

Init ==
    /\ adapters = <<>>
    /\ inflight = <<>>
    /\ hist = <<>>
    /\ last = NoCall
    /\ strategies = <<>>
    /\ broker_connections = <<>>
    /\ ledger = [strategies |-> <<>>, connections |-> <<>>]

\* get_broker_adapter(broker_name): a new instance, or the error and no instance.
Resolve(broker_name) ==
    LET r == get_broker_adapter(broker_name)
    IN  /\ Len(adapters) < MaxAdapters
        /\ IF r.kind = "return"
           THEN /\ adapters' = Append(adapters, r.val)
                /\ inflight' = Append(inflight, Idle)
                /\ hist' = Append(hist, "fresh")
           ELSE UNCHANGED <<adapters, inflight, hist>>
        /\ UNCHANGED web
        /\ last' = Invocation(IF r.kind = "return" THEN Len(adapters) + 1 ELSE 0,
                              "get_broker_adapter", broker_name, "none",
                              NoRequest, NoResponse, 0, r)

\* A method's end as it would be if the attributes were those of the class,
\* shared by all its instances.
CompleteOnClass(i, op, arg, done) ==
    /\ adapters' = [j \in DOMAIN adapters |->
                       IF adapters[j].cls = adapters[i].cls THEN done.self ELSE adapters[j]]
    /\ hist' = [hist EXCEPT ![i] = IF op = "connect" THEN HistAfterConnect(@, done.out)
                                   ELSE @]
    /\ last' = Invocation(i, op, arg, hist[i], done.req, done.resp, done.calls, done.out)
    /\ UNCHANGED <<inflight, web>>

\* A method of instance i ran to its end: `done` is what it did.
Complete(i, op, arg, done) ==
    /\ adapters' = [adapters EXCEPT ![i] = done.self]
    /\ hist' = [hist EXCEPT ![i] = IF op = "connect" THEN HistAfterConnect(@, done.out)
                                   ELSE @]
    /\ last' = Invocation(i, op, arg, hist[i], done.req, done.resp, done.calls, done.out)
    /\ UNCHANGED <<inflight, web>>

DhanConnectCall(i, credentials) ==
    /\ adapters[i].cls = "DhanBroker"
    /\ LET r == DhanConnect(adapters[i], credentials)
       IN  Complete(i, "connect", credentials, Did(r.self, r.out, NoRequest, NoResponse, 0))

DhanGetProfileCall(i) ==
    /\ adapters[i].cls = "DhanBroker"
    /\ Complete(i, "get_profile", PyNone,
                Did(adapters[i], DhanGetProfile(adapters[i]), NoRequest, NoResponse, 0))

\* place_order, cancel_order, get_order_status, get_positions, get_holdings up to
\* their await: the request is sent and the coroutine suspends.
DhanSend(i, op, arg) ==
    /\ adapters[i].cls = "DhanBroker"
    /\ inflight[i] = Idle
    /\ inflight' = [inflight EXCEPT ![i] =
                       [op |-> op, arg |-> arg, pre |-> hist[i],
                        req |-> DhanRequest(adapters[i], op, arg), calls |-> 1]]
    /\ UNCHANGED <<adapters, hist, last, web>>

\* The awaited request ends with the vendor's answer and the method returns or raises.
DhanReceive(i, response) ==
    /\ inflight[i] # Idle
    /\ response \in DhanResponses(inflight[i].op, inflight[i].arg)
    /\ Unauthenticated(inflight[i].req) => ~Accepted(response)
    /\ last' = Invocation(i, inflight[i].op, inflight[i].arg, inflight[i].pre,
                          inflight[i].req, response, inflight[i].calls,
                          DhanOnResponse(inflight[i].op, response))
    /\ inflight' = [inflight EXCEPT ![i] = Idle]
    /\ UNCHANGED <<adapters, hist, web>>

\* The caller cancels the task at its await: CancelledError unwinds the method.
DhanCancelled(i) ==
    /\ inflight[i] # Idle
    /\ last' = Invocation(i, inflight[i].op, inflight[i].arg, inflight[i].pre,
                          inflight[i].req, NoResponse, inflight[i].calls,
                          Raise("CancelledError", ""))
    /\ inflight' = [inflight EXCEPT ![i] = Idle]
    /\ UNCHANGED <<adapters, hist, web>>

AngelOneConnectCall(i, credentials, ctor, answer) ==
    /\ adapters[i].cls = "AngelOneBroker"
    /\ Complete(i, "connect", credentials,
                AngelOneConnect(adapters[i], credentials, ctor, answer))

\* The methods of AngelOneBroker other than connect.
AngelOneMethod(self, op, arg, answer) ==
    CASE op = "get_profile" -> AngelOneGetProfile(self, answer)
      [] op = "place_order" -> AngelOnePlaceOrder(self, arg, answer)
      [] op = "cancel_order" -> AngelOneCancelOrder(self, arg, answer)
      [] op = "get_order_status" -> AngelOneGetOrderStatus(self, arg, answer)
      [] op = "get_positions" -> AngelOneGetList(self, "position", answer)
      [] op = "get_holdings" -> AngelOneGetList(self, "holding", answer)

AngelOneCall(i, op, arg, answer) ==
    /\ adapters[i].cls = "AngelOneBroker"
    /\ Complete(i, op, arg, AngelOneMethod(adapters[i], op, arg, answer))

\* The vendor never answers "ok" to a client that presents no token.
FyersOk(answer) ==
    /\ answer.answer = "returns"
    /\ Get(answer.value, "s", PyNone) = PyStr("ok")

FyersConnectCall(i, credentials, ctor, answer) ==
    /\ adapters[i].cls = "FyersBroker"
    /\ ~Truthy(Get(credentials, "access_token", PyNone)) => ~FyersOk(answer)
    /\ Complete(i, "connect", credentials,
                FyersConnect(adapters[i], credentials, ctor, answer))

\* The methods of FyersBroker other than connect.
FyersMethod(self, op, arg, answer) ==
    CASE op = "get_profile" -> FyersGetProfile(self, answer)
      [] op = "place_order" -> FyersPlaceOrder(self, arg, answer)
      [] op = "cancel_order" -> FyersCancelOrder(self, arg, answer)
      [] op = "get_order_status" -> FyersGetOrderStatus(self, arg, answer)
      [] op = "get_positions" -> FyersGetList(self, "positions", "netPositions", answer)
      [] op = "get_holdings" -> FyersGetList(self, "holdings", "holdings", answer)

FyersCall(i, op, arg, answer) ==
    /\ adapters[i].cls = "FyersBroker"
    /\ (Truthy(adapters[i].attrs.fyers) /\ ~Truthy(adapters[i].attrs.fyers.attrs.token))
          => ~FyersOk(answer)
    /\ Complete(i, op, arg, FyersMethod(adapters[i], op, arg, answer))

\* The methods other than connect, and the arguments each is called with.
Ops == {"get_profile", "place_order", "cancel_order", "get_order_status",
        "get_positions", "get_holdings"}

Args(op) ==
    CASE op = "place_order" -> OrderRequests
      [] op \in {"cancel_order", "get_order_status"} -> OrderIds
      [] OTHER -> {PyNone}

\* The main specification follows one adapter instance from its resolution on:
\* instances share no attribute (each method reads and writes `self` only).
ResolveFirst(broker_name) == adapters = <<>> /\ Resolve(broker_name)

Next ==
    \/ \E broker_name \in BrokerNames : ResolveFirst(broker_name)
    \/ \E i \in Instances, credentials \in DhanCredentials : DhanConnectCall(i, credentials)
    \/ \E i \in Instances : DhanGetProfileCall(i)
    \/ \E i \in Instances, op \in Ops \ {"get_profile"} : \E arg \in Args(op) :
          DhanSend(i, op, arg)
    \/ \E i \in Instances : \E response \in DhanResponses(inflight[i].op, inflight[i].arg) :
          DhanReceive(i, response)
    \/ \E i \in Instances : DhanCancelled(i)
    \/ \E i \in Instances, credentials \in AngelOneCredentials,
          ctor \in SmartConnectOutcomes, answer \in SessionAnswers :
          AngelOneConnectCall(i, credentials, ctor, answer)
    \/ \E i \in Instances, op \in Ops : \E arg \in Args(op) :
          \E answer \in AngelOneAnswers(op, arg) : AngelOneCall(i, op, arg, answer)
    \/ \E i \in Instances, credentials \in FyersCredentials,
          ctor \in FyersModelOutcomes, answer \in FyersProfileAnswers :
          FyersConnectCall(i, credentials, ctor, answer)
    \/ \E i \in Instances, op \in Ops : \E arg \in Args(op) :
          \E answer \in FyersAnswers(op, arg) : FyersCall(i, op, arg, answer)

Spec == Init /\ [][Next]_vars

----------------------------------------------------------------------------
(* Several instances side by side: resolutions, also of one name, and the  *)
(* connect calls of each instance.                                         *)

\* The credentials the instances are connected with: two clients per broker,
\* and for Dhan also credentials that connect refuses.
InstanceCredentials(cls) ==
    CASE cls = "DhanBroker" ->
            {c \in DhanCredentials : Truthy(Get(c, "client_id", PyNone))
                                     /\ Get(c, "access_token", PyNone) # PyStr("")}
      [] cls = "AngelOneBroker" ->
            {c \in AngelOneCredentials : Get(c, "password", PyNone) = PyStr("p")}
      [] cls = "FyersBroker" ->
            {c \in FyersCredentials : Truthy(Get(c, "access_token", PyNone))}

\* The vendor grants the session (AngelOne: with either token) or refuses it.
InstanceAnswers(cls) ==
    CASE cls = "AngelOneBroker" ->
            {a \in SessionAnswers :
                /\ a.answer = "returns"
                /\ Truthy(a.value)
                /\ \/ Get(a.value, "status", PyNone) = PyFalse
                   \/ Truthy(Get(Get(a.value, "data", EmptyDict), "refreshToken", PyNone))}
      [] cls = "FyersBroker" ->
            {a \in FyersProfileAnswers : a.answer = "returns" /\ "s" \in DOMAIN a.value.d}
      [] OTHER -> {}

NextInstances ==
    \/ \E broker_name \in BrokerNames : Resolve(broker_name)
    \/ \E i \in Instances : \E credentials \in InstanceCredentials(adapters[i].cls) :
          DhanConnectCall(i, credentials)
    \/ \E i \in Instances : \E credentials \in InstanceCredentials(adapters[i].cls),
          answer \in InstanceAnswers(adapters[i].cls) :
          AngelOneConnectCall(i, credentials, "constructed", answer)
    \/ \E i \in Instances : \E credentials \in InstanceCredentials(adapters[i].cls),
          answer \in InstanceAnswers(adapters[i].cls) :
          FyersConnectCall(i, credentials, "constructed", answer)

SpecInstances == Init /\ [][NextInstances]_vars

----------------------------------------------------------------------------
(* Tasks of one event loop, each with its own instance. A coroutine keeps  *)
(* the loop's thread until it awaits: a Dhan method gives it up at         *)
(* `await client.post/get/delete`, while the SDK calls of AngelOneBroker   *)
(* and FyersBroker are plain calls inside the coroutine and keep the       *)
(* thread until the SDK returns.                                           *)

\* Instance i is inside a synchronous SDK call.
SdkOutstanding(i) == inflight[i] # Idle /\ inflight[i].req.method = "sdk"

\* The loop's thread is inside a synchronous SDK call: no coroutine runs.
LoopBlocked == \E i \in Instances : SdkOutstanding(i)

\* The credentials the tasks of this specification connect with.
LoopCredentials(cls) ==
    CASE cls = "DhanBroker" ->
            {c \in DhanCredentials : /\ Get(c, "client_id", PyNone) = PyStr("C1")
                                     /\ Truthy(Get(c, "access_token", PyNone))}
      [] cls = "AngelOneBroker" ->
            {c \in AngelOneCredentials : Get(c, "client_id", PyNone) = PyStr("C1")}
      [] cls = "FyersBroker" ->
            {c \in FyersCredentials : Get(c, "client_id", PyNone) = PyStr("C1")}

\* The operations the tasks of this specification call, and their arguments.
LoopOps == {"connect", "place_order"}

LoopArgs(cls, op) ==
    IF op = "connect" THEN LoopCredentials(cls)
    ELSE {arg \in Args(op) : Get(arg, "symbol", PyNone) = PyStr("SBIN")}

\* A method of an SDK adapter, connect included.
SdkMethod(self, op, arg, ctor, answer) ==
    CASE self.cls = "AngelOneBroker" ->
            IF op = "connect" THEN AngelOneConnect(self, arg, ctor, answer)
            ELSE AngelOneMethod(self, op, arg, answer)
      [] self.cls = "FyersBroker" ->
            IF op = "connect" THEN FyersConnect(self, arg, ctor, answer)
            ELSE FyersMethod(self, op, arg, answer)

\* What the SDK may answer to the call the method makes.
SdkAnswers(cls, op, arg) ==
    CASE cls = "AngelOneBroker" ->
            IF op = "connect" THEN SessionAnswers ELSE AngelOneAnswers(op, arg)
      [] cls = "FyersBroker" ->
            IF op = "connect" THEN FyersProfileAnswers ELSE FyersAnswers(op, arg)

\* The method runs up to its SDK call and enters it, on the loop's thread. What
\* it assigned before the call shows when the call ends: no coroutine runs
\* before that.
SdkBegin(i, op, arg) ==
    /\ ~LoopBlocked
    /\ adapters[i].cls \in {"AngelOneBroker", "FyersBroker"}
    /\ LET answer == CHOOSE a \in SdkAnswers(adapters[i].cls, op, arg) : TRUE
           done == SdkMethod(adapters[i], op, arg, "constructed", answer)
       IN  /\ done.req # NoRequest
           /\ inflight' = [inflight EXCEPT ![i] =
                              [op |-> op, arg |-> arg, pre |-> hist[i],
                               req |-> done.req, calls |-> 1]]
    /\ UNCHANGED <<adapters, hist, last, web>>

\* The SDK call returns or raises and the method runs to its end.
SdkEnd(i, answer) ==
    /\ SdkOutstanding(i)
    /\ answer \in SdkAnswers(adapters[i].cls, inflight[i].op, inflight[i].arg)
    /\ (/\ adapters[i].cls = "FyersBroker"
        /\ ~Truthy(inflight[i].req.client.attrs.token)) => ~FyersOk(answer)
    /\ LET done == SdkMethod(adapters[i], inflight[i].op, inflight[i].arg,
                             "constructed", answer)
       IN  /\ adapters' = [adapters EXCEPT ![i] = done.self]
           /\ hist' = [hist EXCEPT ![i] = IF inflight[i].op = "connect"
                                          THEN HistAfterConnect(@, done.out) ELSE @]
           /\ last' = Invocation(i, inflight[i].op, inflight[i].arg, inflight[i].pre,
                                 done.req, done.resp, done.calls, done.out)
    /\ inflight' = [inflight EXCEPT ![i] = Idle]
    /\ UNCHANGED web

\* A method of an SDK adapter that ends before any SDK call: the constructor
\* of the handle raised, or the instance holds no handle.
SdkLocal(i, op, arg, ctor) ==
    /\ ~LoopBlocked
    /\ adapters[i].cls \in {"AngelOneBroker", "FyersBroker"}
    /\ LET answer == CHOOSE a \in SdkAnswers(adapters[i].cls, op, arg) : TRUE
           done == SdkMethod(adapters[i], op, arg, ctor, answer)
       IN  /\ done.req = NoRequest
           /\ Complete(i, op, arg, done)

\* httpx.AsyncClient() is built with no timeout argument, so the library's
\* default applies: an awaited request that gets no answer raises.
DhanTimeout(i) ==
    /\ inflight[i] # Idle
    /\ inflight[i].req.method # "sdk"
    /\ last' = Invocation(i, inflight[i].op, inflight[i].arg, inflight[i].pre,
                          inflight[i].req, VendorRaises("httpx.ReadTimeout"),
                          inflight[i].calls, Raise("httpx.ReadTimeout", ""))
    /\ inflight' = [inflight EXCEPT ![i] = Idle]
    /\ UNCHANGED <<adapters, hist, web>>

\* The timers of the loop that are armed and can run.
TimersFire == \E i \in Instances : ~LoopBlocked /\ DhanTimeout(i)

NextLoop ==
    \/ \E broker_name \in BrokerNames : ~LoopBlocked /\ Resolve(broker_name)
    \/ \E i \in Instances : \E credentials \in LoopCredentials(adapters[i].cls) :
          ~LoopBlocked /\ DhanConnectCall(i, credentials)
    \/ \E i \in Instances, op \in LoopOps \ {"connect"} :
          \E arg \in LoopArgs(adapters[i].cls, op) : ~LoopBlocked /\ DhanSend(i, op, arg)
    \/ \E i \in Instances : \E response \in DhanResponses(inflight[i].op, inflight[i].arg) :
          ~LoopBlocked /\ DhanReceive(i, response)
    \/ \E i \in Instances : ~LoopBlocked /\ DhanCancelled(i)
    \/ TimersFire
    \/ \E i \in Instances, op \in LoopOps : \E arg \in LoopArgs(adapters[i].cls, op) :
          SdkBegin(i, op, arg)
    \/ \E i \in Instances, op \in LoopOps, ctor \in SmartConnectOutcomes \cup FyersModelOutcomes :
          \E arg \in LoopArgs(adapters[i].cls, op) : SdkLocal(i, op, arg, ctor)
    \/ \E i \in Instances :
          /\ SdkOutstanding(i)
          /\ \E answer \in SdkAnswers(adapters[i].cls, inflight[i].op, inflight[i].arg) :
                SdkEnd(i, answer)

\* The loop runs a timer that is due; nothing makes the vendor answer.
SpecLoop == Init /\ [][NextLoop]_vars /\ WF_vars(TimersFire)

----------------------------------------------------------------------------
(* FyersBroker.place_order on every side and order type a caller may       *)
(* write, the known ones and others: its own specification.                *)

\* Sides and order types as callers write them; None stands for a request
\* that does not carry the field.
OrderSides == {PyStr("BUY"), PyStr("SELL"), PyStr("sell"), PyStr("SHORT"), PyNone}

OrderTypes ==
    {PyStr("MARKET"), PyStr("LIMIT"), PyStr("STOP_LIMIT"), PyStr("STOP_MARKET"),
     PyStr("limit"), PyStr("STOP"), PyNone}

\* The dict {key: v}, or the empty dict for a field the request does not carry.
Field(key, v) == IF v = PyNone THEN <<>> ELSE (key :> v)

FyersOrderInputs ==
    { PyDict(("symbol" :> PyStr("NSE:SBIN-EQ")) @@ ("quantity" :> PyInt(10))
             @@ ("product_type" :> PyStr("INTRADAY"))
             @@ Field("side", side) @@ Field("order_type", order_type)) :
         side \in OrderSides, order_type \in OrderTypes }

NextFyersOrders ==
    \/ \E broker_name \in {n \in BrokerNames : Lower(n) = Chars_fyers} :
          ResolveFirst(broker_name)
    \/ \E i \in Instances, credentials \in FyersCredentials,
          ctor \in FyersModelOutcomes, answer \in FyersProfileAnswers :
          FyersConnectCall(i, credentials, ctor, answer)
    \/ \E i \in Instances, arg \in FyersOrderInputs :
          \E answer \in FyersAnswers("place_order", arg) :
             FyersCall(i, "place_order", arg, answer)

SpecFyersOrders == Init /\ [][NextFyersOrders]_vars

----------------------------------------------------------------------------
(* The broker endpoints of the HTTP API (api/broker.py) over the module's  *)
(* dict broker_connections. The handlers are coroutines without an await,  *)
(* so each request is one step. Broker names are sequences of characters,  *)
(* as everywhere in this module.                                           *)

\* dict d without key k, and d with d[k] = v
Without(d, k) == [x \in DOMAIN d \ {k} |-> d[x]]

With(d, k, v) == (k :> v) @@ d

Chars_none == <<"n", "o", "n", "e">>
Chars_zerodha == <<"z", "e", "r", "o", "d", "h", "a">>

UserIds == {"u1", "u2"}

\* The request bodies of POST /connect.
BrokerConfigs ==
    [broker_name : {Chars_dhan, Chars_zerodha, <<"F", "Y", "E", "R", "S">>},
     api_key : {"k1", "k2"}, api_secret : {"s"}, user_id : UserIds]

HTTPException(status_code, detail) == Raise("HTTPException", <<status_code, detail>>)

BrokerResponse(broker_name, user_id, is_connected) ==
    PyObj("BrokerResponse",
          [broker_name |-> broker_name, user_id |-> user_id, is_connected |-> is_connected])

BrokerStatus(broker_name, status, message) ==
    PyObj("BrokerStatus", [broker_name |-> broker_name, status |-> status, message |-> message])

\* Each handler: [store |-> broker_connections afterwards, out |-> the answer]
connect_broker(store, config) ==
    [store |-> With(store, config.user_id,
                    [broker_name |-> config.broker_name, api_key |-> config.api_key,
                     api_secret |-> config.api_secret, is_connected |-> TRUE]),
     out |-> Return(BrokerResponse(config.broker_name, config.user_id, TRUE))]

\* disconnect as it would be if it kept the entry and marked it.
disconnect_broker_marking(store, user_id) ==
    IF user_id \notin DOMAIN store
    THEN [store |-> store,
          out |-> HTTPException(404, "No broker connection found for this user")]
    ELSE [store |-> [store EXCEPT ![user_id].is_connected = FALSE],
          out |-> Return(BrokerStatus(store[user_id].broker_name, "disconnected",
                                      "Successfully disconnected from broker"))]

disconnect_broker(store, user_id) ==
    IF user_id \notin DOMAIN store
    THEN [store |-> store,
          out |-> HTTPException(404, "No broker connection found for this user")]
    ELSE [store |-> Without(store, user_id),
          out |-> Return(BrokerStatus(store[user_id].broker_name, "disconnected",
                                      "Successfully disconnected from broker"))]

get_broker_status(store, user_id) ==
    IF user_id \notin DOMAIN store
    THEN Return(BrokerStatus(Chars_none, "not_connected", "No broker connection found"))
    ELSE Return(BrokerStatus(store[user_id].broker_name,
                             IF store[user_id].is_connected THEN "connected"
                             ELSE "disconnected",
                             "Broker is connected and ready"))

get_supported_brokers ==
    Return(<<Chars_zerodha, <<"u", "p", "s", "t", "o", "x">>, Chars_angelone, Chars_fyers,
             <<"i", "i", "f", "l">>>>)

\* One request was answered: the store afterwards, the answer, and what the
\* connect and disconnect requests so far say each user's connection is.
Answered(op, arg, store, out, connections) ==
    /\ broker_connections' = store
    /\ last' = Invocation(0, op, arg, "none", NoRequest, NoResponse, 0, out)
    /\ ledger' = [ledger EXCEPT !.connections = connections]
    /\ UNCHANGED <<adapters, inflight, hist, strategies>>

ConnectBroker(config) ==
    LET r == connect_broker(broker_connections, config)
    IN  Answered("connect_broker", config, r.store, r.out,
                 With(ledger.connections, config.user_id, config.broker_name))

DisconnectBroker(user_id) ==
    LET r == disconnect_broker(broker_connections, user_id)
    IN  Answered("disconnect_broker", user_id, r.store, r.out,
                 Without(ledger.connections, user_id))

GetBrokerStatus(user_id) ==
    Answered("get_broker_status", user_id, broker_connections,
             get_broker_status(broker_connections, user_id), ledger.connections)

GetSupportedBrokers ==
    Answered("get_supported_brokers", PyNone, broker_connections, get_supported_brokers,
             ledger.connections)

NextBrokerApi ==
    \/ \E config \in BrokerConfigs : ConnectBroker(config)
    \/ \E user_id \in UserIds : DisconnectBroker(user_id)
    \/ \E user_id \in UserIds : GetBrokerStatus(user_id)
    \/ GetSupportedBrokers

SpecBrokerApi == Init /\ [][NextBrokerApi]_vars

----------------------------------------------------------------------------
(* The strategy endpoints of the HTTP API (api/strategies.py) over table   *)
(* "strategies". Each handler opens its own database session and commits   *)
(* once, so each request is one step (one transaction).                    *)

StrategyIds == 1..MaxStrategyId

\* The request bodies of POST /strategies/.
StrategyCreates ==
    { [name |-> PyStr("test-strategy"), strategy_type |-> PyStr("momentum"),
       symbol |-> PyStr("SBIN"), parameters |-> PyDict([lookback |-> PyInt(10)]),
       user_id |-> PyInt(1)],
      [name |-> PyStr("breakout-2"), strategy_type |-> PyStr("breakout"),
       symbol |-> PyStr("INFY"), parameters |-> EmptyDict, user_id |-> PyInt(2)],
      [name |-> PyStr("test-strategy"), strategy_type |-> PyStr("scalping"),
       symbol |-> PyStr("TCS"), parameters |-> EmptyDict, user_id |-> PyInt(1)] }

\* The request bodies of PATCH /strategies/{id}: a field left out is None.
StrategyUpdates ==
    { [name |-> PyNone, parameters |-> PyNone, status |-> PyNone],
      [name |-> PyNone, parameters |-> PyNone, status |-> PyStr("paused")],
      [name |-> PyStr("renamed"), parameters |-> PyDict([lookback |-> PyInt(20)]),
       status |-> PyStr("active")] }

\* db.commit() of an INSERT: done, or refused by the foreign key on users.id.
CommitOutcomes == {"committed", "IntegrityError"}

\* StrategyResponse.from_orm(row)
StrategyResponse(row) ==
    PyObj("StrategyResponse",
          [id |-> row.id, name |-> row.name, strategy_type |-> row.strategy_type,
           symbol |-> row.symbol, parameters |-> row.parameters, status |-> row.status,
           user_id |-> row.user_id])

\* Each handler: [table |-> the rows afterwards, out |-> the answer]. `id` in
\* create_strategy is the primary key the database assigns to the new row.
create_strategy(table, id, strategy, commit) ==
    LET db_strategy == [id |-> PyInt(id), name |-> strategy.name,
                        strategy_type |-> strategy.strategy_type,
                        symbol |-> strategy.symbol, parameters |-> strategy.parameters,
                        status |-> PyStr("stopped"), user_id |-> strategy.user_id]
    IN  IF commit = "committed"
        THEN [table |-> With(table, id, db_strategy),
              out |-> Return(StrategyResponse(db_strategy))]
        ELSE [table |-> table, out |-> Raise("IntegrityError", "")]

RECURSIVE InKeyOrder(_)
\* The keys of S in ascending order
InKeyOrder(S) ==
    IF S = {} THEN <<>>
    ELSE LET least == CHOOSE k \in S : \A j \in S : k <= j
         IN  <<least>> \o InKeyOrder(S \ {least})

list_strategies(table, user_id) ==
    LET found == IF Truthy(user_id)
                 THEN {k \in DOMAIN table : table[k].user_id = user_id}
                 ELSE DOMAIN table
        keys == InKeyOrder(found)
    IN  [table |-> table,
         out |-> Return(PyList([k \in 1..Len(keys) |-> StrategyResponse(table[keys[k]])]))]

NotFound(table) == [table |-> table, out |-> HTTPException(404, "Strategy not found")]

get_strategy(table, strategy_id) ==
    IF strategy_id \notin DOMAIN table THEN NotFound(table)
    ELSE [table |-> table, out |-> Return(StrategyResponse(table[strategy_id]))]

\* update as it would be if it left the status alone.
update_strategy_keeping_status(table, strategy_id, update) ==
    IF strategy_id \notin DOMAIN table THEN NotFound(table)
    ELSE LET s1 == IF update.name # PyNone
                   THEN [table[strategy_id] EXCEPT !.name = update.name]
                   ELSE table[strategy_id]
             s2 == IF update.parameters # PyNone
                   THEN [s1 EXCEPT !.parameters = update.parameters] ELSE s1
         IN  [table |-> [table EXCEPT ![strategy_id] = s2],
              out |-> Return(StrategyResponse(s2))]

update_strategy(table, strategy_id, update) ==
    IF strategy_id \notin DOMAIN table THEN NotFound(table)
    ELSE LET s1 == IF update.name # PyNone
                   THEN [table[strategy_id] EXCEPT !.name = update.name]
                   ELSE table[strategy_id]
             s2 == IF update.parameters # PyNone
                   THEN [s1 EXCEPT !.parameters = update.parameters] ELSE s1
             s3 == IF update.status # PyNone
                   THEN [s2 EXCEPT !.status = update.status] ELSE s2
         IN  [table |-> [table EXCEPT ![strategy_id] = s3],
              out |-> Return(StrategyResponse(s3))]

\* delete as it would be if it stopped the strategy and kept the row.
delete_strategy_keeping_row(table, strategy_id) ==
    IF strategy_id \notin DOMAIN table THEN NotFound(table)
    ELSE [table |-> [table EXCEPT ![strategy_id].status = PyStr("stopped")],
          out |-> Return(PyDict([message |-> PyStr("Strategy deleted successfully")]))]

delete_strategy(table, strategy_id) ==
    IF strategy_id \notin DOMAIN table THEN NotFound(table)
    ELSE [table |-> Without(table, strategy_id),
          out |-> Return(PyDict([message |-> PyStr("Strategy deleted successfully")]))]

\* start_strategy (status "active") and stop_strategy (status "stopped")
set_strategy_status(table, strategy_id, status) ==
    IF strategy_id \notin DOMAIN table THEN NotFound(table)
    ELSE LET s1 == [table[strategy_id] EXCEPT !.status = status]
         IN  [table |-> [table EXCEPT ![strategy_id] = s1],
              out |-> Return(StrategyResponse(s1))]

start_strategy(table, strategy_id) == set_strategy_status(table, strategy_id, PyStr("active"))

stop_strategy(table, strategy_id) == set_strategy_status(table, strategy_id, PyStr("stopped"))

\* What the answered requests say is stored: per strategy the body it was
\* created with and the status the last answered request set.
Booked(book, op, arg, out) ==
    IF out.kind # "return" THEN book
    ELSE CASE op = "create_strategy" ->
                 With(book, out.val.attrs.id.n, [made |-> arg, status |-> PyStr("stopped")])
           [] op = "delete_strategy" -> Without(book, arg)
           [] op = "start_strategy" -> [book EXCEPT ![arg].status = PyStr("active")]
           [] op = "stop_strategy" -> [book EXCEPT ![arg].status = PyStr("stopped")]
           [] op = "update_strategy" ->
                 IF arg.update.status # PyNone
                 THEN [book EXCEPT ![arg.id].status = arg.update.status]
                 ELSE book
           [] OTHER -> book

\* One request was answered.
StrategyAnswered(op, arg, r) ==
    /\ strategies' = r.table
    /\ last' = Invocation(0, op, arg, "none", NoRequest, NoResponse, 0, r.out)
    /\ ledger' = [ledger EXCEPT !.strategies = Booked(@, op, arg, r.out)]
    /\ UNCHANGED <<adapters, inflight, hist, broker_connections>>

CreateStrategy(id, strategy, commit) ==
    /\ id \notin DOMAIN strategies
    /\ StrategyAnswered("create_strategy", strategy,
                        create_strategy(strategies, id, strategy, commit))

ListStrategies(user_id) ==
    StrategyAnswered("list_strategies", user_id, list_strategies(strategies, user_id))

GetStrategy(strategy_id) ==
    StrategyAnswered("get_strategy", strategy_id, get_strategy(strategies, strategy_id))

UpdateStrategy(strategy_id, update) ==
    StrategyAnswered("update_strategy", [id |-> strategy_id, update |-> update],
                     update_strategy(strategies, strategy_id, update))

DeleteStrategy(strategy_id) ==
    StrategyAnswered("delete_strategy", strategy_id,
                     delete_strategy(strategies, strategy_id))

StartStrategy(strategy_id) ==
    StrategyAnswered("start_strategy", strategy_id, start_strategy(strategies, strategy_id))

StopStrategy(strategy_id) ==
    StrategyAnswered("stop_strategy", strategy_id, stop_strategy(strategies, strategy_id))

\* Strategies are created, listed, fetched and deleted, never changed.
NextStrategyStore ==
    \/ \E id \in StrategyIds, strategy \in StrategyCreates, commit \in CommitOutcomes :
          CreateStrategy(id, strategy, commit)
    \/ \E user_id \in {PyNone, PyInt(0), PyInt(1), PyInt(2)} : ListStrategies(user_id)
    \/ \E strategy_id \in StrategyIds : GetStrategy(strategy_id)
    \/ \E strategy_id \in StrategyIds : DeleteStrategy(strategy_id)

SpecStrategyStore == Init /\ [][NextStrategyStore]_vars

\* All the endpoints.
NextStrategies ==
    \/ NextStrategyStore
    \/ \E strategy_id \in StrategyIds, update \in StrategyUpdates :
          UpdateStrategy(strategy_id, update)
    \/ \E strategy_id \in StrategyIds : StartStrategy(strategy_id)
    \/ \E strategy_id \in StrategyIds : StopStrategy(strategy_id)

SpecStrategies == Init /\ [][NextStrategies]_vars

----------------------------------------------------------------------------
(* The factory on every spelling: its own specification.                   *)

RECURSIVE Spellings(_)
\* Every way to write the letters of `base` in upper and lower case.
Spellings(base) ==
    IF base = <<>> THEN {<<>>}
    ELSE {<<c>> \o rest : c \in {base[1], UpperChar(base[1])},
                          rest \in Spellings(Tail(base))}

OtherNames ==
    { <<>>,
      <<"z", "e", "r", "o", "d", "h", "a">>,
      <<"d", "h", "a">>,
      <<"d", "h", "a", "n", " ">>,
      <<"D", "H", "A", "N", "N">>,
      <<"a", "n", "g", "e", "l", "_", "o", "n", "e">>,
      <<"A", "n", "g", "e", "l">>,
      <<"f", "y", "e", "r">>,
      <<"F", "Y", "E", "R", "S", "2">> }

AllNames ==
    Spellings(Chars_dhan) \cup Spellings(Chars_angelone) \cup Spellings(Chars_fyers)
    \cup OtherNames

NextResolve == \E broker_name \in AllNames : Resolve(broker_name)

SpecResolve == Init /\ [][NextResolve]_vars

----------------------------------------------------------------------------
(* Vocabulary of the properties *)

\* No connect call on the instance had succeeded when the invocation began.
NeverConnected(h) == h \in {"fresh", "failed"}

\* The error an operation without a Session is to fail with.
IsNotConnectedError(out) ==
    /\ out.kind = "raise"
    /\ out.exc = "NotConnectedError" \/ out.msg = "Broker not connected"

\* The instance a constructor of class `cls` returns.
Fresh(cls) ==
    CASE cls = "DhanBroker" -> DhanBroker
      [] cls = "AngelOneBroker" -> AngelOneBroker
      [] cls = "FyersBroker" -> FyersBroker

\* Instances a and b of one class answer every call alike: the same result and
\* the same vendor call for every method, argument and vendor answer.
BehaveAlike(a, b) ==
    CASE a.cls = "DhanBroker" ->
            /\ DhanGetProfile(a) = DhanGetProfile(b)
            /\ \A op \in Ops \ {"get_profile"} : \A arg \in Args(op) :
                  DhanRequest(a, op, arg) = DhanRequest(b, op, arg)
      [] a.cls = "AngelOneBroker" ->
            \A op \in Ops : \A arg \in Args(op) : \A answer \in AngelOneAnswers(op, arg) :
               LET da == AngelOneMethod(a, op, arg, answer)
                   db == AngelOneMethod(b, op, arg, answer)
               IN  da.out = db.out /\ da.req = db.req
      [] a.cls = "FyersBroker" ->
            \A op \in Ops : \A arg \in Args(op) : \A answer \in FyersAnswers(op, arg) :
               LET da == FyersMethod(a, op, arg, answer)
                   db == FyersMethod(b, op, arg, answer)
               IN  da.out = db.out /\ da.req = db.req

----------------------------------------------------------------------------
(* C1: every operation other than connect, invoked on an adapter on which  *)
(* no connect call has yet succeeded, fails with NotConnectedError: it     *)
(* returns nothing and makes no vendor call.                               *)

C1_OperationsRequireConnect ==
    /\ (last.op \in Ops /\ NeverConnected(last.pre)) =>
          (IsNotConnectedError(last.out) /\ last.calls = 0)
    /\ \A i \in Instances : inflight[i] # Idle => ~NeverConnected(inflight[i].pre)

(* C2: an adapter whose connect calls have all returned false or failed is *)
(* still Disconnected: it answers every later call exactly as a            *)
(* never-connected instance does, and no call after the failed connect     *)
(* reaches the vendor.                                                     *)

C2_FailedConnectLeavesDisconnected ==
    /\ \A i \in Instances :
          hist[i] = "failed" => BehaveAlike(adapters[i], Fresh(adapters[i].cls))
    /\ (last.op \in Ops /\ last.pre = "failed") => last.calls = 0

(* C3: one invocation of place_order or cancel_order issues its vendor     *)
(* call once and never again: a completed invocation that reached the     *)
(* vendor made exactly one call whatever the answer (success, rejection,   *)
(* transport failure) and also when the caller cancelled it in flight; an  *)
(* invocation refused as not connected made none; an invocation in flight  *)
(* has sent one request.                                                   *)

Mutating == {"place_order", "cancel_order"}

C3_NoAutomaticRetry ==
    /\ last.op \in Mutating =>
          /\ last.calls <= 1
          /\ last.calls = 1 <=> last.req # NoRequest
          /\ last.resp # NoResponse => last.calls = 1
          /\ last.out = Raise("CancelledError", "") => last.calls = 1
    /\ \A i \in Instances : inflight[i] # Idle /\ inflight[i].op \in Mutating =>
          inflight[i].calls = 1

\* A place_order the caller cancelled in flight, after its one request.
C3_Witness ==
    /\ last.op = "place_order"
    /\ last.pre = "connected"
    /\ last.calls = 1
    /\ last.out = Raise("CancelledError", "")

(* C4: get_broker_adapter returns, for every spelling of dhan, angelone    *)
(* and fyers in any letter case, a new instance of DhanBroker,             *)
(* AngelOneBroker and FyersBroker respectively; for every other name it    *)
(* raises the factory's unsupported-broker error (a ValueError), whose     *)
(* message ends with the name exactly as requested.                        *)

CaseSpelling(name, base) ==
    /\ Len(name) = Len(base)
    /\ \A k \in 1..Len(base) : name[k] \in {base[k], UpperChar(base[k])}

C4_FactoryResolves ==
    last.op = "get_broker_adapter" =>
        LET name == last.arg
            Resolved(cls) ==
                /\ last.out.kind = "return"
                /\ last.out.val.cls = cls
                /\ last.out.val = Fresh(cls)
                /\ adapters[last.inst] = last.out.val
        IN  /\ CaseSpelling(name, Chars_dhan) => Resolved("DhanBroker")
            /\ CaseSpelling(name, Chars_angelone) => Resolved("AngelOneBroker")
            /\ CaseSpelling(name, Chars_fyers) => Resolved("FyersBroker")
            /\ (\A base \in {Chars_dhan, Chars_angelone, Chars_fyers} :
                    ~CaseSpelling(name, base)) =>
                  /\ last.out.kind = "raise"
                  /\ last.out.exc = "ValueError"
                  /\ last.out.msg = <<"Unsupported broker: ">> \o name
                  /\ last.inst = 0

\* A mixed-case spelling resolved to a new instance of its adapter.
C4_Witness ==
    /\ last.op = "get_broker_adapter"
    /\ last.arg = <<"a", "N", "g", "E", "l", "O", "n", "E">>
    /\ last.out = Return(AngelOneBroker)
    /\ Len(adapters) = 1

(* C5: get_positions and get_holdings of a connected adapter return an     *)
(* empty sequence only when the vendor confirmed that there are no         *)
(* records; when the fetch failed (transport failure, non-200 status,      *)
(* non-ok envelope) they raise and never return an empty sequence.         *)

Listing == {"get_positions", "get_holdings"}

\* The vendor answered the listing successfully and it holds no record.
ConfirmedZero(resp) ==
    CASE resp.answer = "http" -> resp.status_code = 200 /\ resp.json = EmptyList
      [] resp.answer = "returns" ->
            /\ resp.value.py = "dict"
            /\ \/ /\ Get(resp.value, "status", PyNone) = PyTrue
                  /\ Get(resp.value, "data", PyNone) = EmptyList
               \/ /\ Get(resp.value, "s", PyNone) = PyStr("ok")
                  /\ \E key \in {"netPositions", "holdings"} :
                        Get(resp.value, key, PyNone) = EmptyList
      [] OTHER -> FALSE

\* The vendor call failed: an exception, a non-200 status, a non-ok envelope.
FetchFailed(resp) ==
    CASE resp.answer = "raises" -> TRUE
      [] resp.answer = "http" -> resp.status_code # 200
      [] resp.answer = "returns" ->
            \/ resp.value.py # "dict"
            \/ Get(resp.value, "status", PyNone) = PyFalse
            \/ ("s" \in DOMAIN resp.value.d /\ resp.value.d["s"] # PyStr("ok"))
      [] OTHER -> FALSE

C5_EmptyMeansConfirmedZero ==
    (last.op \in Listing /\ last.pre = "connected") =>
        /\ last.out = Return(EmptyList) => ConfirmedZero(last.resp)
        /\ FetchFailed(last.resp) => last.out.kind = "raise"

(* C6: get_order_status of a connected adapter never answers a failed      *)
(* query (non-200 status other than the vendor's not-found, non-ok         *)
(* envelope, missing order book) with the empty record it answers for an   *)
(* order the vendor's book lacks: the failure is raised.                   *)

\* The query itself failed.
QueryFailed(resp) ==
    CASE resp.answer = "raises" -> TRUE
      [] resp.answer = "http" -> resp.status_code \notin {200, 404}
      [] resp.answer = "returns" ->
            \/ resp.value.py # "dict"
            \/ Get(resp.value, "status", PyNone) = PyFalse
            \/ ("s" \in DOMAIN resp.value.d /\ resp.value.d["s"] # PyStr("ok"))
            \/ /\ Get(resp.value, "s", PyNone) = PyStr("ok")
               /\ "orderBook" \notin DOMAIN resp.value.d
      [] OTHER -> FALSE

C6_NotFoundIsNotFailure ==
    (last.op = "get_order_status" /\ last.pre = "connected" /\ QueryFailed(last.resp)) =>
        /\ last.out # Return(EmptyDict)
        /\ last.out.kind = "raise"

(* C7: connect ends with a boolean or with a typed AuthenticationError;    *)
(* no other exception (of the vendor client's constructor, of session      *)
(* generation, of the verification call) reaches the caller.               *)

C7_ConnectNeverLeaksRaw ==
    last.op = "connect" =>
        \/ last.out \in {Return(PyTrue), Return(PyFalse)}
        \/ last.out.kind = "raise" /\ last.out.exc = "AuthenticationError"

(* C8: cancel_order never raises; it returns false when the adapter is not *)
(* connected, when the vendor answers an error or a non-ok/non-200 answer  *)
(* and when the vendor call raises, and true only when the vendor          *)
(* confirmed the cancellation.                                             *)

\* The vendor answered that the order is cancelled.
CancelConfirmed(resp) ==
    CASE resp.answer = "http" -> resp.status_code = 200
      [] resp.answer = "returns" ->
            /\ resp.value.py = "dict"
            /\ \/ Get(resp.value, "status", PyNone) = PyTrue
               \/ Get(resp.value, "s", PyNone) = PyStr("ok")
      [] OTHER -> FALSE

\* The caller cancelled the task: CancelledError is the caller's own, no failure.
CallerCancelled(out) == out = Raise("CancelledError", "")

C8_CancelFalseOnAnyFailure ==
    (last.op = "cancel_order" /\ ~CallerCancelled(last.out)) =>
        /\ last.out \in {Return(PyTrue), Return(PyFalse)}
        /\ last.out = Return(PyTrue) => CancelConfirmed(last.resp)
        /\ NeverConnected(last.pre) => last.out = Return(PyFalse)

(* C9: when the vendor rejects the place_order of a connected adapter      *)
(* (error envelope, null order id, rejection raised by the vendor client), *)
(* the call returns an OrderResult with status REJECTED that carries the   *)
(* vendor's message; it does not raise.                                    *)

\* The vendor refused the order; the message it gave.
OrderRejected(resp) ==
    CASE resp.answer = "http" -> resp.status_code = 400
      [] resp.answer = "raises" -> resp.exc = "DataException"
      [] resp.answer = "returns" ->
            \/ resp.value = PyNone
            \/ resp.value.py = "dict" /\ Get(resp.value, "s", PyNone) = PyStr("error")
      [] OTHER -> FALSE

C9_RejectionIsAResult ==
    (last.op = "place_order" /\ last.pre = "connected" /\ OrderRejected(last.resp)) =>
        /\ last.out.kind = "return"
        /\ last.out.val.py = "dict"
        /\ Get(last.out.val, "status", PyNone) = PyStr("REJECTED")
        /\ "message" \in DOMAIN last.out.val.d
        /\ last.resp.answer = "http" => last.out.val.d["message"] = PyStr(last.resp.text)
        /\ (last.resp.answer = "returns" /\ last.resp.value.py = "dict") =>
              last.out.val.d["message"] = Get(last.resp.value, "message", PyNone)

(* C10: when connect on a Connected adapter returns false, the earlier     *)
(* session is destroyed: no header, token, refresh token or client handle  *)
(* remains, and every later operation fails as not connected without a     *)
(* vendor call.                                                            *)

\* The instance holds no part of a session.
SessionDestroyed(self) ==
    CASE self.cls = "DhanBroker" ->
            self.attrs.headers = EmptyDict /\ self.attrs.access_token = PyNone
      [] self.cls = "AngelOneBroker" ->
            self.attrs.smart_api = PyNone /\ self.attrs.refresh_token = PyNone
      [] self.cls = "FyersBroker" -> self.attrs.fyers = PyNone

C10_ReconnectDestroysSession ==
    /\ \A i \in Instances : hist[i] = "refused" => SessionDestroyed(adapters[i])
    /\ (last.op \in Ops /\ last.pre = "refused") =>
          (IsNotConnectedError(last.out) /\ last.calls = 0)

(* C15: FyersBroker.connect validates the credentials by fetching the      *)
(* profile at once: it returns true exactly when that fetch returns an     *)
(* envelope whose status "s" is "ok", and false when the status is another *)
(* one, is missing, or the fetch raises.                                   *)

C15_FyersConnectIffProfileOk ==
    (/\ last.op = "connect"
     /\ adapters[last.inst].cls = "FyersBroker"
     /\ last.req # NoRequest)
    => /\ last.req.call = "get_profile"
       /\ last.req.client.attrs.client_id = Get(last.arg, "client_id", PyNone)
       /\ last.req.client.attrs.token = Get(last.arg, "access_token", PyNone)
       /\ last.calls = 1
       /\ last.out = Return(PyBool(FyersOk(last.resp)))

\* A connect whose profile fetch raised has returned false.
C15_Witness ==
    /\ last.op = "connect"
    /\ adapters[last.inst].cls = "FyersBroker"
    /\ last.resp = VendorRaises("ConnectionError")
    /\ last.out = Return(PyFalse)

(* C16: every FyersBroker operation checks the status of the vendor's      *)
(* envelope before it trusts the payload: when the envelope's "s" is not   *)
(* "ok" the operation reports a failure, and it never hands the envelope   *)
(* or its payload back to the caller as the result of a successful call.   *)

\* The vendor returned an envelope and its status is not "ok".
EnvelopeNotOk(resp) == resp.answer = "returns" /\ ~FyersOk(resp)

\* The caller is told that the operation failed.
ReportsFailure(out) ==
    \/ out.kind = "raise"
    \/ out = Return(PyFalse)
    \/ (out.val.py = "dict" /\ Get(out.val, "status", PyNone) = PyStr("error"))

C16_FyersChecksEnvelope ==
    (/\ last.op \in Ops
     /\ last.pre = "connected"
     /\ adapters[last.inst].cls = "FyersBroker"
     /\ EnvelopeNotOk(last.resp))
    => /\ last.out # Return(last.resp.value)
       /\ ReportsFailure(last.out)

(* C17: DhanBroker.place_order never reports a transport-level failure as  *)
(* a success: for every HTTP status that is no success status the result   *)
(* is an order result whose status is "error" and whose message is the     *)
(* response body, never a success-shaped result and never a bare boolean.  *)

HttpSuccess(status_code) == status_code \in 200..299

C17_DhanPlaceOrderErrorResult ==
    (/\ last.op = "place_order"
     /\ adapters[last.inst].cls = "DhanBroker"
     /\ last.resp.answer = "http"
     /\ ~HttpSuccess(last.resp.status_code))
    => /\ last.out = Return(PyDict([status |-> PyStr("error"),
                                    message |-> PyStr(last.resp.text)]))
       /\ last.out.val.py # "bool"

\* A connected instance placed an order, the vendor rejected it with 400, and
\* the caller holds the error result that carries the body.
C17_Witness ==
    /\ last.op = "place_order"
    /\ adapters[last.inst].cls = "DhanBroker"
    /\ last.pre = "connected"
    /\ last.resp.answer = "http"
    /\ last.resp.status_code = 400
    /\ Get(last.out.val, "status", PyNone) = PyStr("error")

(* C18: AngelOneBroker.connect fails loudly when a one-time password must  *)
(* be derived and no usable seed is supplied: for credentials without      *)
(* "totp_key", or with a seed no code can be derived from, connect raises  *)
(* and never submits the fallback code "000000" to generateSession.        *)

\* The credentials carry a seed that pyotp derives a code from.
UsableSeed(credentials) ==
    /\ Truthy(Get(credentials, "totp_key", PyNone))
    /\ TotpNow(Get(credentials, "totp_key", PyNone)).kind = "return"

\* The call submitted the fallback code to the vendor.
SubmitsFallbackCode(req) ==
    /\ req # NoRequest
    /\ req.call = "generateSession"
    /\ req.args[3] = PyStr("000000")

C18_NoTotpFallback ==
    (/\ last.op = "connect"
     /\ adapters[last.inst].cls = "AngelOneBroker"
     /\ ~UsableSeed(last.arg)
     /\ Get(last.arg, "totp", PyNone) = PyNone)
    => /\ ~SubmitsFallbackCode(last.req)
       /\ last.out.kind = "raise"

(* C19: AngelOneBroker.connect calls generateSession with the client code, *)
(* the password and the derived one-time password; for every refresh token *)
(* R, when the vendor answers {"status": true, "data": {"refreshToken": R}}*)
(* connect returns true and the instance holds R, and when the vendor      *)
(* answers with status false connect returns false.                       *)

\* The refresh token a generateSession answer carries, or None.
GrantedToken(resp) ==
    IF /\ resp.answer = "returns"
       /\ resp.value.py = "dict"
       /\ Get(resp.value, "status", PyNone) = PyTrue
       /\ Get(resp.value, "data", PyNone).py = "dict"
    THEN Get(Get(resp.value, "data", PyNone), "refreshToken", PyNone)
    ELSE PyNone

SessionRefused(resp) ==
    /\ resp.answer = "returns"
    /\ resp.value.py = "dict"
    /\ Get(resp.value, "status", PyNone) = PyFalse

C19_AngelOneStoresRefreshToken ==
    (/\ last.op = "connect"
     /\ adapters[last.inst].cls = "AngelOneBroker"
     /\ last.req # NoRequest)
    => /\ last.req.call = "generateSession"
       /\ last.req.args[1] = Get(last.arg, "client_id", PyNone)
       /\ last.req.args[2] = Get(last.arg, "password", PyNone)
       /\ UsableSeed(last.arg) =>
             last.req.args[3] = TotpNow(Get(last.arg, "totp_key", PyNone)).val
       /\ GrantedToken(last.resp) # PyNone =>
             /\ last.out = Return(PyTrue)
             /\ adapters[last.inst].attrs.refresh_token = GrantedToken(last.resp)
       /\ SessionRefused(last.resp) => last.out = Return(PyFalse)

\* A second connect was granted R2 and the instance, which held R1, holds R2.
C19_Witness ==
    /\ last.op = "connect"
    /\ adapters[last.inst].cls = "AngelOneBroker"
    /\ last.pre = "connected"
    /\ GrantedToken(last.resp) = PyStr("R2")
    /\ adapters[last.inst].attrs.refresh_token = PyStr("R2")
    /\ last.out = Return(PyTrue)

(* C20: DhanBroker.connect makes no network call and returns true exactly  *)
(* when the credentials carry both a non-empty client_id and a non-empty   *)
(* access_token (false otherwise); it then sets the session headers        *)
(* X-Client-Id = client_id and X-Dhan-Client-Token = access_token, and     *)
(* every request sent while that session stands carries these headers.     *)

\* The credential `key` is present and is a non-empty string.
Present(credentials, key) ==
    /\ key \in DOMAIN credentials.d
    /\ credentials.d[key].py = "str"
    /\ credentials.d[key].s # ""

HasSessionHeaders(headers, client_id, access_token) ==
    /\ Get(headers, "X-Client-Id", PyNone) = client_id
    /\ Get(headers, "X-Dhan-Client-Token", PyNone) = access_token

DhanConnectResult ==
    (/\ last.op = "connect"
     /\ adapters[last.inst].cls = "DhanBroker")
    => /\ last.calls = 0
       /\ last.req = NoRequest
       /\ last.out = Return(PyBool(Present(last.arg, "client_id")
                                   /\ Present(last.arg, "access_token")))
       /\ last.out = Return(PyTrue) =>
             HasSessionHeaders(adapters[last.inst].attrs.headers,
                               last.arg.d["client_id"], last.arg.d["access_token"])

\* A request leaves a connected instance with the headers of its session.
DhanSendsSessionHeaders ==
    \A i \in Instances :
       (/\ adapters[i].cls = "DhanBroker"
        /\ hist[i] = "connected"
        /\ inflight[i] = Idle
        /\ inflight'[i] # Idle)
       => /\ Present(PyDict(adapters[i].attrs), "client_id")
          /\ Present(PyDict(adapters[i].attrs), "access_token")
          /\ HasSessionHeaders(inflight'[i].req.headers,
                               adapters[i].attrs.client_id, adapters[i].attrs.access_token)

C20_DhanConnectSetsHeaders == []DhanConnectResult /\ [][DhanSendsSessionHeaders]_vars

\* A request left an instance connected as C2/T2 and carried C2 and T2.
C20_Witness ==
    \E i \in Instances :
       /\ adapters[i].cls = "DhanBroker"
       /\ hist[i] = "connected"
       /\ adapters[i].attrs.client_id = PyStr("C2")
       /\ inflight[i] # Idle
       /\ inflight[i].pre = "connected"
       /\ HasSessionHeaders(inflight[i].req.headers, PyStr("C2"), PyStr("T2"))

(* C14: every get_broker_adapter call yields a new, unauthenticated        *)
(* instance, distinct from every instance resolved before (also under the  *)
(* same name), and no call on one instance, connect included, changes the  *)
(* state of another: sessions are never shared between instances.          *)

\* The instance holds no credential, token, header or client handle.
HoldsNoSession(self) == \A a \in DOMAIN self.attrs : ~Truthy(self.attrs[a])

\* One step leaves every instance other than the one it is a call on as it was.
OthersUntouched ==
    \A i \in Instances : i # last'.inst => (adapters'[i] = adapters[i] /\ hist'[i] = hist[i])

\* One step that is a successful resolution adds one instance, not one of
\* those that exist, and it holds no session.
ResolvesAnew ==
    (last'.op = "get_broker_adapter" /\ last'.out.kind = "return")
    => /\ Len(adapters') = Len(adapters) + 1
       /\ last'.inst = Len(adapters')
       /\ last'.inst \notin Instances
       /\ last'.out.val = adapters'[last'.inst]
       /\ HoldsNoSession(adapters'[last'.inst])
       /\ hist'[last'.inst] = "fresh"

C14_InstancesShareNothing == [][OthersUntouched /\ ResolvesAnew]_vars

\* The same name was resolved twice; the first instance is connected, the
\* second was connected afterwards with other credentials, each holds its own.
C14_Witness ==
    /\ Len(adapters) = 2
    /\ adapters[1].cls = "DhanBroker"
    /\ adapters[2].cls = "DhanBroker"
    /\ hist[1] = "connected"
    /\ hist[2] = "connected"
    /\ adapters[1].attrs.client_id = PyStr("C1")
    /\ adapters[2].attrs.client_id = PyStr("C2")
    /\ last.op = "connect"
    /\ last.inst = 2

(* C11: calls on one shared instance are serialized around connect: in     *)
(* every interleaving of two connect calls, or of connect with another     *)
(* operation, an operation of an instance that has been connected observes *)
(* a whole Session, never the client id of one connect call with the       *)
(* headers, token or handle of another, nor a client handle without its    *)
(* refresh token.                                                          *)

\* The attributes of the instance are those one connect call leaves.
SessionWhole(self) ==
    CASE self.cls = "DhanBroker" ->
            HasSessionHeaders(self.attrs.headers, self.attrs.client_id,
                              self.attrs.access_token)
      [] self.cls = "AngelOneBroker" ->
            Truthy(self.attrs.smart_api) => Truthy(self.attrs.refresh_token)
      [] self.cls = "FyersBroker" ->
            Truthy(self.attrs.fyers) =>
               self.attrs.fyers.attrs.client_id = self.attrs.client_id

\* The request a Dhan operation sent names one client in body and headers.
RequestOfOneSession(req) ==
    (req # NoRequest /\ req.method = "POST")
    => Get(req.json, "dhanClientId", PyNone) = Get(req.headers, "X-Client-Id", PyNone)

C11_NoHalfUpdatedSession ==
    /\ (last.op \in Ops /\ ~NeverConnected(last.pre))
          => /\ SessionWhole(adapters[last.inst])
             /\ RequestOfOneSession(last.req)
    /\ \A i \in Instances :
          (inflight[i] # Idle /\ ~NeverConnected(inflight[i].pre))
             => RequestOfOneSession(inflight[i].req)

(* C12: a synchronous vendor SDK call of AngelOneBroker or FyersBroker      *)
(* does not run on the caller's scheduling context: while the call of one  *)
(* task is outstanding, the other tasks of the same event loop can still   *)
(* take a step.                                                            *)

\* A step of the loop that is not the end of the call outstanding on instance i.
OtherTaskSteps(i) == NextLoop /\ inflight'[i] = inflight[i]

C12_SdkCallsOffLoop ==
    \A i \in Instances :
       (SdkOutstanding(i) /\ Len(adapters) > 1) => ENABLED OtherTaskSteps(i)

(* C13: every adapter operation that performs a network call eventually   *)
(* completes, also when the vendor never answers: a timeout ends it with   *)
(* an error, and no operation stays pending for ever.                      *)

C13_OperationsComplete ==
    \A i \in 1..MaxAdapters :
       (i \in Instances /\ inflight[i] # Idle) ~> (i \in Instances /\ inflight[i] = Idle)

(* C21: FyersBroker.place_order translates every order request whose side  *)
(* is BUY or SELL and whose order type is MARKET, LIMIT, STOP_LIMIT or     *)
(* STOP_MARKET to the vendor payload with side 1 for BUY and -1 for SELL,  *)
(* type 1 for LIMIT, 2 for MARKET, 3 for STOP_LIMIT and 4 for STOP_MARKET, *)
(* and carries symbol and quantity over unchanged (as symbol and qty).     *)

\* The vendor's codes as its documentation states them.
VendorSide(side) == IF side = PyStr("BUY") THEN PyInt(1) ELSE PyInt(-1)

VendorType(order_type) ==
    CASE order_type = PyStr("LIMIT") -> PyInt(1)
      [] order_type = PyStr("MARKET") -> PyInt(2)
      [] order_type = PyStr("STOP_LIMIT") -> PyInt(3)
      [] order_type = PyStr("STOP_MARKET") -> PyInt(4)

KnownSide(order) == Get(order, "side", PyNone) \in {PyStr("BUY"), PyStr("SELL")}

KnownType(order) ==
    Get(order, "order_type", PyNone) \in
       {PyStr("MARKET"), PyStr("LIMIT"), PyStr("STOP_LIMIT"), PyStr("STOP_MARKET")}

\* The last call is a place_order of a FyersBroker that holds a handle.
FyersOrderPlaced ==
    /\ last.op = "place_order"
    /\ adapters[last.inst].cls = "FyersBroker"
    /\ Truthy(adapters[last.inst].attrs.fyers)

C21_FyersTranslatesOrder ==
    (FyersOrderPlaced /\ KnownSide(last.arg) /\ KnownType(last.arg))
    => /\ last.req # NoRequest
       /\ last.req.call = "place_order"
       /\ LET data == last.req.args[1]
          IN  /\ Get(data, "side", PyNone) = VendorSide(Get(last.arg, "side", PyNone))
              /\ Get(data, "type", PyNone) = VendorType(Get(last.arg, "order_type", PyNone))
              /\ Get(data, "symbol", PyNone) = Get(last.arg, "symbol", PyNone)
              /\ Get(data, "qty", PyNone) = Get(last.arg, "quantity", PyNone)

\* A SELL STOP_LIMIT order of 10 went to the vendor as side -1, type 3, qty 10.
C21_Witness ==
    /\ FyersOrderPlaced
    /\ Get(last.arg, "side", PyNone) = PyStr("SELL")
    /\ Get(last.arg, "order_type", PyNone) = PyStr("STOP_LIMIT")
    /\ Get(last.req.args[1], "side", PyNone) = PyInt(-1)
    /\ Get(last.req.args[1], "type", PyNone) = PyInt(3)
    /\ Get(last.req.args[1], "qty", PyNone) = PyInt(10)

(* C23: FyersBroker.place_order never submits an order whose side or order *)
(* type differs from what the caller requested: for a request whose side   *)
(* is not exactly "BUY" or "SELL" no BUY order is sent in its place, and   *)
(* for a request whose order type is none of the four known ones (missing, *)
(* misspelled, other letter case) no MARKET order is sent in its place.    *)

\* The call sent an order to the vendor whose field `key` is `code`.
SentOrderWith(req, key, code) ==
    /\ req # NoRequest
    /\ req.call = "place_order"
    /\ Get(req.args[1], key, PyNone) = code

C23_FyersNeverSubstitutes ==
    (FyersOrderPlaced /\ last.pre = "connected")
    => /\ ~KnownSide(last.arg) => ~SentOrderWith(last.req, "side", PyInt(1))
       /\ ~KnownType(last.arg) => ~SentOrderWith(last.req, "type", PyInt(2))

(* C24: whenever AngelOneBroker.connect returns true the instance holds a  *)
(* refresh token obtained from that very call: connect does not return     *)
(* true for a vendor response that is no dict, lacks "data" or carries no  *)
(* refreshToken, and after a successful reconnect the stored token is      *)
(* never the one of an earlier session.                                    *)

C24_TrueMeansTokenOfThisCall ==
    (/\ last.op = "connect"
     /\ adapters[last.inst].cls = "AngelOneBroker"
     /\ last.out = Return(PyTrue))
    => /\ GrantedToken(last.resp) # PyNone
       /\ adapters[last.inst].attrs.refresh_token = GrantedToken(last.resp)

(* C26: for every user id, after any sequence of /connect and /disconnect  *)
(* requests, /status reports "connected" with the broker name of the most  *)
(* recent connect if the user's last such request was a connect, and       *)
(* "not_connected" with broker "none" if the user never connected or the   *)
(* last one was a disconnect; /disconnect for a user without a stored      *)
(* connection answers 404 and leaves the store unchanged; and a request    *)
(* for one user never changes the entry of another.                        *)

\* What /status is to report for the user, by the requests answered so far.
StatusDue(user_id) ==
    IF user_id \in DOMAIN ledger.connections
    THEN [broker_name |-> ledger.connections[user_id], status |-> "connected"]
    ELSE [broker_name |-> Chars_none, status |-> "not_connected"]

Reports(out, due) ==
    /\ out.kind = "return"
    /\ out.val.attrs.broker_name = due.broker_name
    /\ out.val.attrs.status = due.status

StatusFollowsLastRequest ==
    /\ \A user_id \in UserIds :
          Reports(get_broker_status(broker_connections, user_id), StatusDue(user_id))
    /\ last.op = "get_broker_status" => Reports(last.out, StatusDue(last.arg))

\* The user a broker request is for.
UserOf(call) == IF call.op = "connect_broker" THEN call.arg.user_id ELSE call.arg

EntryOf(store, user_id) == IF user_id \in DOMAIN store THEN store[user_id] ELSE PyNone

StoreStepsAreLocal ==
    /\ last'.op \in {"connect_broker", "disconnect_broker", "get_broker_status"} =>
          \A user_id \in UserIds \ {UserOf(last')} :
             EntryOf(broker_connections', user_id) = EntryOf(broker_connections, user_id)
    /\ (last'.op = "disconnect_broker" /\ last'.arg \notin DOMAIN broker_connections) =>
          /\ last'.out.kind = "raise"
          /\ last'.out.msg[1] = 404
          /\ broker_connections' = broker_connections
    /\ last'.op \in {"get_broker_status", "get_supported_brokers"} =>
          broker_connections' = broker_connections

C26_BrokerStoreFollowsRequests == []StatusFollowsLastRequest /\ [][StoreStepsAreLocal]_vars

\* /status for u2 answers not_connected while u1's entry, written by a
\* connect with key k2, names zerodha.
C26_Witness ==
    /\ last.op = "get_broker_status"
    /\ last.arg = "u2"
    /\ last.out.val.attrs.status = "not_connected"
    /\ "u1" \in DOMAIN broker_connections
    /\ broker_connections["u1"].broker_name = Chars_zerodha
    /\ broker_connections["u1"].api_key = "k2"

(* C27: the broker names GET /broker/supported advertises and the names    *)
(* get_broker_adapter accepts are the same set: every advertised name      *)
(* resolves to an adapter, and every name the factory resolves is          *)
(* advertised.                                                             *)

\* The elements of a list
Elements(q) == {q[k] : k \in 1..Len(q)}

C27_AdvertisedEqualsResolvable ==
    last.op = "get_supported_brokers"
    => /\ \A name \in Elements(last.out.val) : get_broker_adapter(name).kind = "return"
       /\ \A name \in AllNames :
             get_broker_adapter(name).kind = "return"
                => Lower(name) \in Elements(last.out.val)

(* C28: the HTTP layer reports a broker connection as connected (/connect  *)
(* answering is_connected true, /status answering "connected") only for a  *)
(* broker name the adapter factory supports and only after the connect of  *)
(* the corresponding adapter accepted the credentials; a /connect with an  *)
(* unknown broker name or rejected credentials never leaves the user's     *)
(* entry connected.                                                        *)

\* The factory resolves the name and an adapter of that broker has connected.
AdapterAccepted(broker_name) ==
    /\ get_broker_adapter(broker_name).kind = "return"
    /\ \E i \in Instances :
          /\ adapters[i].cls = get_broker_adapter(broker_name).val.cls
          /\ hist[i] = "connected"

C28_ConnectedOnlyIfAdapterAccepted ==
    /\ (last.op = "connect_broker" /\ last.out.val.attrs.is_connected)
          => AdapterAccepted(last.arg.broker_name)
    /\ \A user_id \in DOMAIN broker_connections :
          get_broker_status(broker_connections, user_id).val.attrs.status = "connected"
             => AdapterAccepted(broker_connections[user_id].broker_name)


----------------------------------------------------------------------------
\* The items of the answer to the last request, a list.
ListedItems == {last.out.val.q[k] : k \in 1..Len(last.out.val.q)}

\* Item `item` shows strategy `id` with the fields of the body `made`.
ShowsAsMade(item, id, made) ==
    /\ item.attrs.id = PyInt(id)
    /\ item.attrs.name = made.name
    /\ item.attrs.strategy_type = made.strategy_type
    /\ item.attrs.symbol = made.symbol
    /\ item.attrs.parameters = made.parameters
    /\ item.attrs.user_id = made.user_id

\* C22: when strategies are only created and deleted, GET /strategies/
\* without a user filter answers with exactly one item per strategy that was
\* created and not deleted since, each showing the name, type, symbol,
\* parameters and user_id of the body that created it (so one creation on an
\* empty table gives a list of exactly one item with that name).
C22_ListIsCreatedMinusDeleted ==
    (last.op = "list_strategies" /\ last.arg = PyNone) =>
        /\ last.out.kind = "return"
        /\ Len(last.out.val.q) = Cardinality(DOMAIN ledger.strategies)
        /\ \A id \in DOMAIN ledger.strategies :
              \E item \in ListedItems : ShowsAsMade(item, id, ledger.strategies[id].made)

\* The unfiltered list has exactly one item, named "test-strategy", after a
\* creation on the empty table.
C22_Witness ==
    /\ last.op = "list_strategies" /\ last.arg = PyNone
    /\ Cardinality(DOMAIN ledger.strategies) = 1
    /\ Len(last.out.val.q) = 1
    /\ last.out.val.q[1].attrs.name = PyStr("test-strategy")

----------------------------------------------------------------------------
\* The strategy id a request names (create and list name none).
StrategyIdOf(inv) ==
    IF inv.op = "update_strategy" THEN inv.arg.id ELSE inv.arg

ById == {"get_strategy", "update_strategy", "delete_strategy",
         "start_strategy", "stop_strategy"}

\* Every stored strategy has the status the last answered request set for it
\* (creation: stopped), and a creation answers with status stopped.
StatusIsLastSet ==
    /\ DOMAIN strategies = DOMAIN ledger.strategies
    /\ \A id \in DOMAIN strategies : strategies[id].status = ledger.strategies[id].status
    /\ (last.op = "create_strategy" /\ last.out.kind = "return") =>
            last.out.val.attrs.status = PyStr("stopped")
    /\ (last.op \in {"update_strategy", "start_strategy", "stop_strategy"}
            /\ last.out.kind = "return") =>
            last.out.val.attrs.status = strategies[StrategyIdOf(last)].status

\* A step of the strategy endpoints: starting an active strategy or stopping a
\* stopped one changes nothing stored; a request for an id that is not stored
\* answers 404, and a 404 leaves every stored strategy as it was.
LifecycleStep ==
    /\ (last'.op = "start_strategy" /\ last'.arg \in DOMAIN strategies
            /\ strategies[last'.arg].status = PyStr("active")) => strategies' = strategies
    /\ (last'.op = "stop_strategy" /\ last'.arg \in DOMAIN strategies
            /\ strategies[last'.arg].status = PyStr("stopped")) => strategies' = strategies
    /\ (last'.op \in ById /\ StrategyIdOf(last') \notin DOMAIN strategies) =>
            /\ last'.out = HTTPException(404, "Strategy not found")
            /\ strategies' = strategies
    /\ (last'.op \in ById /\ last'.out.kind = "raise") => strategies' = strategies

\* C25: a strategy is created stopped; its status is always the one set by
\* the last request that set one (start: active, stop: stopped, update with
\* status s: s); start and stop are idempotent; a request for an id that does
\* not exist answers 404 and leaves every stored strategy unchanged.
C25_StatusLifecycle == []StatusIsLastSet /\ [][LifecycleStep]_vars

\* A strategy that an update renamed and activated is paused by a later update.
C25_Witness ==
    /\ last.op = "update_strategy" /\ last.out.kind = "return"
    /\ last.arg.update.status = PyStr("paused")
    /\ strategies[last.arg.id].name = PyStr("renamed")
    /\ strategies[last.arg.id].status = PyStr("paused")

====
